---- MODULE Spec2Model ----
(***************************************************************************)
(* A model of the micros AMD64 bootstrap: the tiered page-frame allocator, *)
(* the memory-region accountant, the identity mapper and the ELF segment   *)
(* loader.                                                                 *)
(*                                                                         *)
(* Scale.  Physical memory is modelled byte by byte, so the frame sizes    *)
(* are scaled down: a 4 KiB frame is PageBytes bytes and the ratio between *)
(* consecutive tiers (and the number of entries of a page table), 512 in   *)
(* the source, is TableEntries.  All arithmetic is the source's arithmetic *)
(* on the scaled sizes (modulo, division), never bit tricks.               *)
(*                                                                         *)
(* Memory.  `mem` is physical memory seen as machine words: the word `i`   *)
(* of the 4 KiB frame at address `f` is the cell <<f, i>>.  A word is      *)
(* written as a page-table entry [addr, flags]; the free lists keep their  *)
(* link (an Option of a pointer: a tag word and a pointer word) in words 0 *)
(* and 1 of the free frame itself.  `bytes` is the same memory seen as     *)
(* bytes, for the data the ELF loader copies.                              *)
(***************************************************************************)
EXTENDS Integers, Sequences, FiniteSets, TLC

VARIABLES
    allocator,  \* Amd64FrameAllocator: the `next` field of each tier
    mem,        \* physical memory as words: <<frame, index>> -> entry
    bytes,      \* physical memory as bytes: address -> byte
    boot,       \* the locals of the bootstrap: the module, the root table, ...
    pc,         \* the position of the program
    call,       \* the last operation performed, its arguments and its result
    ledger      \* history: what was handed to the allocator and what it returned

vars == <<allocator, mem, bytes, boot, pc, call, ledger>>

\* ------------------------------------------------------------- scale, bounds

\* Bytes of a (scaled) 4 KiB frame.
PageBytes == 2
\* Entries of a (scaled) page table, and the ratio between two tiers.
TableEntries == 5

FOUR_KILOBYTES == PageBytes
TWO_MEGABYTES == FOUR_KILOBYTES * TableEntries
GIGABYTE == TWO_MEGABYTES * TableEntries

\* Option::None of a frame address / of a free-list head.
NoFrame == 0 - 1
\* FfiOption::None of the whole 1 GiB tier (CPU without 1 GiB pages).
Absent == 0 - 2

Max(a, b) == IF a >= b THEN a ELSE b
Min(a, b) == IF a <= b THEN a ELSE b

\* ------------------------------------------------------------- memory words

\* The flag bits of a page-table entry the program uses.
PRESENT == "PRESENT"
WRITABLE == "WRITABLE"
USER_ACCESSIBLE == "USER_ACCESSIBLE"
HUGE_PAGE == "HUGE_PAGE"
NO_EXECUTE == "NO_EXECUTE"

Entry(address, flags) == [addr |-> address, flags |-> flags]
\* PageTableEntry::new / set_unused: the all-zero word.
Unused == Entry(0, {})
\* The tag word of Option::Some (1: as an entry, bit 0 alone) and of None (0).
TagSome == Entry(0, {PRESENT})
TagNone == Unused

\* The word a never-written cell holds.
Load(m, frame, i) == IF <<frame, i>> \in DOMAIN m THEN m[<<frame, i>>] ELSE Unused

Store(m, frame, i, v) ==
    [c \in DOMAIN m \cup {<<frame, i>>} |-> IF c = <<frame, i>> THEN v ELSE m[c]]

\* ------------------------------------------------------------- FrameAllocator<F>
\* A FrameAllocator is its `next` field: NoFrame or the address of the first
\* free frame.  Every operation takes the allocator and memory and returns both.

\* An operator that takes the result of a call as an argument is the rest of
\* the function after that call.

\* The new frame is linked behind the head of the list instead of before it.
add_frame_behind_head(fa, m, frame_address) ==
    IF fa = NoFrame
    THEN [fa |-> frame_address, mem |-> Store(m, frame_address, 0, TagNone)]
    ELSE [fa |-> fa,
          mem |-> Store(Store(Store(Store(m, frame_address, 0, Load(m, fa, 0)),
                                    frame_address, 1, Load(m, fa, 1)),
                              fa, 0, TagSome),
                        fa, 1, Entry(frame_address, {}))]

add_frame(fa, m, frame_address) ==
    [fa |-> frame_address,
     mem |-> IF fa = NoFrame
             THEN Store(m, frame_address, 0, TagNone)
             ELSE Store(Store(m, frame_address, 0, TagSome),
                        frame_address, 1, Entry(fa, {}))]

get_frame(fa, m) ==
    IF fa = NoFrame
    THEN [ret |-> NoFrame, fa |-> fa, mem |-> m]
    ELSE [ret |-> fa,
          fa |-> IF Load(m, fa, 0) = TagNone THEN NoFrame ELSE Load(m, fa, 1).addr,
          mem |-> m]

\* The link words of the frames start + F, ..., start + (n - 1) * F.
LinkCells(start, n, F) == {<<start + k * F, i>> : k \in 1..(n - 1), i \in 0..1}

\* The frames after the first: the k-th pushed frame links to the one pushed
\* before it, and the last pushed frame becomes the head.
LinkFrames(first_mem, start, n, F) ==
    [fa |-> start + (n - 1) * F,
     mem |-> [c \in DOMAIN first_mem \cup LinkCells(start, n, F) |->
                IF c \in LinkCells(start, n, F)
                THEN add_frame(c[1] - F, << >>, c[1]).mem[c]
                ELSE first_mem[c]]]

\* memory_area.step_by(FRAME_SIZE): add_frame(start), add_frame(start + F), ...
\* while the address is below end; the loop in closed form.
add_frames(fa, m, start, end, F) ==
    IF start >= end
    THEN [fa |-> fa, mem |-> m]
    ELSE LinkFrames(add_frame(fa, m, start).mem, start,
                    ((end - start) + (F - 1)) \div F, F)

end_of_last_full_page(end_address, page_size) ==
    end_address - (end_address % page_size)

\* A bug: the start is rounded down to the page it lies in.
first_full_page_address_rounds_down(start_address, page_size) ==
    start_address - (start_address % page_size)

first_full_page_address(start_address, page_size) ==
    IF start_address % page_size = 0
    THEN start_address
    ELSE (start_address + page_size) - (start_address % page_size)

add_aligned_frames(fa, m, start, end, F) ==
    add_frames(fa, m, first_full_page_address(start, F),
               end_of_last_full_page(end, F), F)

\* What add_aligned_frames_with_scrap_allocator leaves: [fa, smaller, mem].
Scrapped(fa, scrap) == [fa |-> fa, smaller |-> scrap.fa, mem |-> scrap.mem]

\* A bug: the tail after the last full page is given as an empty range.
AddTail_empty(smaller, middle, end_of_last_page, end, Fs) ==
    Scrapped(middle.fa, add_aligned_frames(smaller, middle.mem, end_of_last_page,
                                           end_of_last_page, Fs))

\* smaller_allocator.add_aligned_frames(end_of_last_page..memory_area.end)
AddTail(smaller, middle, end_of_last_page, end, Fs) ==
    Scrapped(middle.fa, add_aligned_frames(smaller, middle.mem, end_of_last_page, end, Fs))

\* self.add_frames(first_page..end_of_last_page)
AddMiddle(fa, head, first_page, end_of_last_page, end, F, Fs) ==
    AddTail(head.fa, add_frames(fa, head.mem, first_page, end_of_last_page, F),
            end_of_last_page, end, Fs)

\* self has frame size F, smaller_allocator has frame size Fs.
add_aligned_frames_with_scrap_allocator(fa, smaller, m, start, end, F, Fs) ==
    IF end_of_last_full_page(end, F) > first_full_page_address(start, F)
    THEN AddMiddle(fa, add_aligned_frames(smaller, m, start,
                                          first_full_page_address(start, F), Fs),
                   first_full_page_address(start, F), end_of_last_full_page(end, F),
                   end, F, Fs)
    ELSE Scrapped(fa, add_aligned_frames(smaller, m, start, end, Fs))

\* The frames of a free list, head first, read from memory the way get_frame
\* reads them.  `fuel` stops the walk of a list that loops.
RECURSIVE Frames(_, _, _)
Frames(fa, m, fuel) ==
    IF fa = NoFrame \/ fuel = 0
    THEN << >>
    ELSE <<fa>> \o Frames(get_frame(fa, m).fa, m, fuel - 1)

\* ------------------------------------------------------------- Amd64FrameAllocator
\* The operations return [ret, alloc, mem].

EmptyAllocator(gb) ==
    [four_kilobyte_pages |-> NoFrame, two_megabyte_pages |-> NoFrame,
     gigabyte_pages |-> gb]

NoneLeft(a, m) == [ret |-> NoFrame, alloc |-> a, mem |-> m]

\* A bug: the split of a 1 GiB frame pushes from the third sub-frame on.
Split1g_loses_sub_frame(a, m, g) ==
    [ret |-> g.ret,
     alloc |-> [a EXCEPT !.gigabyte_pages = g.fa,
                         !.two_megabyte_pages =
                             add_frames(a.two_megabyte_pages, m, g.ret + 2 * TWO_MEGABYTES,
                                        g.ret + GIGABYTE, TWO_MEGABYTES).fa],
     mem |-> add_frames(a.two_megabyte_pages, m, g.ret + 2 * TWO_MEGABYTES,
                        g.ret + GIGABYTE, TWO_MEGABYTES).mem]

\* get_2mb_frame with the 1 GiB frame `g` taken: all of it but its first 2 MiB
\* goes to the 2 MiB tier.
Split1g(a, m, g) ==
    [ret |-> g.ret,
     alloc |-> [a EXCEPT !.gigabyte_pages = g.fa,
                         !.two_megabyte_pages =
                             add_frames(a.two_megabyte_pages, m, g.ret + TWO_MEGABYTES,
                                        g.ret + GIGABYTE, TWO_MEGABYTES).fa],
     mem |-> add_frames(a.two_megabyte_pages, m, g.ret + TWO_MEGABYTES,
                        g.ret + GIGABYTE, TWO_MEGABYTES).mem]

From1g(a, m, g) == IF g.ret # NoFrame THEN Split1g(a, m, g) ELSE NoneLeft(a, m)

\* A bug: get_2mb_frame gives up without a look at the 1 GiB tier.
From2m_without_gigabytes(a, m, r) ==
    IF r.ret # NoFrame
    THEN [ret |-> r.ret, alloc |-> [a EXCEPT !.two_megabyte_pages = r.fa], mem |-> m]
    ELSE NoneLeft(a, m)

From2m(a, m, r) ==
    IF r.ret # NoFrame
    THEN [ret |-> r.ret, alloc |-> [a EXCEPT !.two_megabyte_pages = r.fa], mem |-> m]
    ELSE IF a.gigabyte_pages = Absent
    THEN NoneLeft(a, m)
    ELSE From1g(a, m, get_frame(a.gigabyte_pages, m))

get_2mb_frame(a, m) == From2m(a, m, get_frame(a.two_megabyte_pages, m))

\* A bug: the split pushes the returned sub-frame too.
Split2m_keeps_returned(t) ==
    [ret |-> t.ret,
     alloc |-> [t.alloc EXCEPT
                  !.four_kilobyte_pages =
                      add_frames(t.alloc.four_kilobyte_pages, t.mem, t.ret,
                                 t.ret + TWO_MEGABYTES, FOUR_KILOBYTES).fa],
     mem |-> add_frames(t.alloc.four_kilobyte_pages, t.mem, t.ret,
                        t.ret + TWO_MEGABYTES, FOUR_KILOBYTES).mem]

\* get_4k_frame with the 2 MiB frame of `t` taken: all of it but its first
\* 4 KiB goes to the 4 KiB tier.
Split2m(t) ==
    [ret |-> t.ret,
     alloc |-> [t.alloc EXCEPT
                  !.four_kilobyte_pages =
                      add_frames(t.alloc.four_kilobyte_pages, t.mem,
                                 t.ret + FOUR_KILOBYTES, t.ret + TWO_MEGABYTES,
                                 FOUR_KILOBYTES).fa],
     mem |-> add_frames(t.alloc.four_kilobyte_pages, t.mem, t.ret + FOUR_KILOBYTES,
                        t.ret + TWO_MEGABYTES, FOUR_KILOBYTES).mem]

From2mSplit(a, m, t) == IF t.ret # NoFrame THEN Split2m(t) ELSE NoneLeft(a, m)

From4k(a, m, r) ==
    IF r.ret # NoFrame
    THEN [ret |-> r.ret, alloc |-> [a EXCEPT !.four_kilobyte_pages = r.fa], mem |-> m]
    ELSE From2mSplit(a, m, get_2mb_frame(a, m))

get_4k_frame(a, m) == From4k(a, m, get_frame(a.four_kilobyte_pages, m))

\* What the call on the two smaller tiers leaves: [alloc, mem].
SmallTiers(a, r) ==
    [alloc |-> [a EXCEPT !.two_megabyte_pages = r.fa, !.four_kilobyte_pages = r.smaller],
     mem |-> r.mem]

\* two_megabyte_pages.add_aligned_frames_with_scrap_allocator(four_kilobyte_pages, ..)
AddToSmallTiers(a, m, start, end) ==
    SmallTiers(a, add_aligned_frames_with_scrap_allocator(
                      a.two_megabyte_pages, a.four_kilobyte_pages, m, start, end,
                      TWO_MEGABYTES, FOUR_KILOBYTES))

\* The second call on the smaller tiers, with the range the source gives it:
\* end_of_last_gb_page..end_of_last_gb_page.
RegisterTail(alloc, middle, end_of_last_gb_page) ==
    AddToSmallTiers([alloc EXCEPT !.gigabyte_pages = middle.fa], middle.mem,
                    end_of_last_gb_page, end_of_last_gb_page)

\* gb_allocator.add_frames(first_gb_page..end_of_last_gb_page)
RegisterGigabytes(a, head, first_gb_page, end_of_last_gb_page) ==
    RegisterTail(head.alloc,
                 add_frames(a.gigabyte_pages, head.mem, first_gb_page,
                            end_of_last_gb_page, GIGABYTE),
                 end_of_last_gb_page)

register_memory_region(a, m, start, end) ==
    IF /\ a.gigabyte_pages # Absent
       /\ end_of_last_full_page(end, GIGABYTE) > first_full_page_address(start, GIGABYTE)
    THEN RegisterGigabytes(a, AddToSmallTiers(a, m, start,
                                              first_full_page_address(start, GIGABYTE)),
                           first_full_page_address(start, GIGABYTE),
                           end_of_last_full_page(end, GIGABYTE))
    ELSE AddToSmallTiers(a, m, start, end)

\* ------------------------------------------------------------- what is free

\* More frames than any list of the model can hold.
ListFuel == Cardinality(DOMAIN mem) + 1

Free4k == Frames(allocator.four_kilobyte_pages, mem, ListFuel)
Free2m == Frames(allocator.two_megabyte_pages, mem, ListFuel)
FreeGb == IF allocator.gigabyte_pages = Absent
          THEN << >>
          ELSE Frames(allocator.gigabyte_pages, mem, ListFuel)

Range(seq) == {seq[i] : i \in 1..Len(seq)}
NoDuplicates(seq) == Cardinality(Range(seq)) = Len(seq)

\* The bytes of the frames of size F starting at the addresses in `frames`.
BytesOf(frames, F) == UNION {f..(f + F - 1) : f \in frames}

FreeBytes ==
    BytesOf(Range(Free4k), FOUR_KILOBYTES) \cup BytesOf(Range(Free2m), TWO_MEGABYTES)
        \cup BytesOf(Range(FreeGb), GIGABYTE)

\* ceil(a / F) * F and floor(b / F) * F, by division.
CeilTo(a, F) == ((a + F - 1) \div F) * F
FloorTo(b, F) == (b \div F) * F

\* The F-aligned addresses whose frame lies wholly inside [start, end).
AlignedFramesIn(start, end, F) ==
    {f \in start..(end - 1) : f % F = 0 /\ f + F <= end}

\* ------------------------------------------------------------- allocator calls
\* One action per public operation of the allocator.  `t` names a tier by its
\* field of Amd64FrameAllocator.

Tiers == {"four_kilobyte_pages", "two_megabyte_pages", "gigabyte_pages"}

FrameSize(t) ==
    CASE t = "four_kilobyte_pages" -> FOUR_KILOBYTES
      [] t = "two_megabyte_pages" -> TWO_MEGABYTES
      [] t = "gigabyte_pages" -> GIGABYTE

\* A tier and the smaller tier that takes its scrap.
ScrapPairs ==
    {<<"two_megabyte_pages", "four_kilobyte_pages">>,
     <<"gigabyte_pages", "two_megabyte_pages">>,
     <<"gigabyte_pages", "four_kilobyte_pages">>}

EmptyLedger ==
    [given |-> {}, pushed |-> {}, popped |-> {}, ops |-> 0, returned |-> << >>,
     copies |-> << >>]

\* The ledger after the region [start, end) was handed over, `frames` being the
\* bytes of the tier-aligned frames that fit inside it.
Handed(start, end, frames) ==
    [ledger EXCEPT !.given = @ \cup (start..(end - 1)),
                   !.pushed = @ \cup frames,
                   !.ops = @ + 1]

\* The ledger after a pop returned `ret` (or nothing) from a tier of frame size F.
Returned(ret, F) ==
    [ledger EXCEPT !.popped = IF ret = NoFrame THEN @ ELSE @ \cup (ret..(ret + F - 1)),
                   !.returned = IF ret = NoFrame THEN @ ELSE Append(@, ret),
                   !.ops = @ + 1]

CallAddFrame(t, frame) ==
    /\ UNCHANGED <<bytes, boot>>
    /\ allocator[t] # Absent
    /\ LET r == add_frame(allocator[t], mem, frame)
       IN /\ allocator' = [allocator EXCEPT ![t] = r.fa]
          /\ mem' = r.mem
    /\ call' = [op |-> "add_frame", tier |-> t, start |-> frame,
                end |-> frame + FrameSize(t)]
    /\ ledger' = Handed(frame, frame + FrameSize(t),
                        frame..(frame + FrameSize(t) - 1))

CallAddFrames(t, start, end) ==
    /\ UNCHANGED <<bytes, boot>>
    /\ allocator[t] # Absent
    /\ LET r == add_frames(allocator[t], mem, start, end, FrameSize(t))
       IN /\ allocator' = [allocator EXCEPT ![t] = r.fa]
          /\ mem' = r.mem
    /\ call' = [op |-> "add_frames", tier |-> t, start |-> start, end |-> end]
    /\ ledger' = Handed(start, end, start..(end - 1))

CallAddAlignedFramesWithScrap(t, s, start, end) ==
    /\ UNCHANGED <<bytes, boot>>
    /\ allocator[t] # Absent
    /\ LET r == add_aligned_frames_with_scrap_allocator(
                    allocator[t], allocator[s], mem, start, end,
                    FrameSize(t), FrameSize(s))
       IN /\ allocator' = [allocator EXCEPT ![t] = r.fa, ![s] = r.smaller]
          /\ mem' = r.mem
    /\ call' = [op |-> "add_aligned_frames_with_scrap_allocator", tier |-> t,
                smaller |-> s, start |-> start, end |-> end]
    /\ ledger' = Handed(start, end,
                        BytesOf(AlignedFramesIn(start, end, FrameSize(s)), FrameSize(s)))

CallRegisterMemoryRegion(start, end) ==
    /\ UNCHANGED <<bytes, boot>>
    /\ LET r == register_memory_region(allocator, mem, start, end)
       IN /\ allocator' = r.alloc
          /\ mem' = r.mem
    /\ call' = [op |-> "register_memory_region", start |-> start, end |-> end]
    /\ ledger' = Handed(start, end,
                        BytesOf(AlignedFramesIn(start, end, FOUR_KILOBYTES),
                                FOUR_KILOBYTES))

CallGetFrame(t) ==
    /\ UNCHANGED <<bytes, boot>>
    /\ allocator[t] # Absent
    /\ LET r == get_frame(allocator[t], mem)
       IN /\ allocator' = [allocator EXCEPT ![t] = r.fa]
          /\ mem' = r.mem
          /\ call' = [op |-> "get_frame", tier |-> t, ret |-> r.ret]
          /\ ledger' = Returned(r.ret, FrameSize(t))

CallGet2mbFrame ==
    LET r == get_2mb_frame(allocator, mem)
    IN /\ UNCHANGED <<bytes, boot>>
       /\ allocator' = r.alloc
       /\ mem' = r.mem
       /\ call' = [op |-> "get_2mb_frame", tier |-> "two_megabyte_pages", ret |-> r.ret]
       /\ ledger' = Returned(r.ret, TWO_MEGABYTES)

CallGet4kFrame ==
    LET r == get_4k_frame(allocator, mem)
    IN /\ UNCHANGED <<bytes, boot>>
       /\ allocator' = r.alloc
       /\ mem' = r.mem
       /\ call' = [op |-> "get_4k_frame", tier |-> "four_kilobyte_pages", ret |-> r.ret]
       /\ ledger' = Returned(r.ret, FOUR_KILOBYTES)

NoCall == [op |-> "none"]

NoBoot == [stage |-> "none"]

\* ------------------------------------------------------------- SpecPush
\* One push of an arbitrary region [start, end) onto an empty allocator, with or
\* without the 1 GiB tier.

\* The largest address of a pushed region: room for a head, a 1 GiB middle and a
\* tail.
MaxAddress == 2 * GIGABYTE + TWO_MEGABYTES + FOUR_KILOBYTES + 1

\* The ends of the pushed regions: every address within a 4 KiB frame (and one
\* byte more) of a 2 MiB or 1 GiB boundary, so that every residue modulo 4 KiB
\* occurs on both sides of every kind of boundary.
Boundaries ==
    {g * GIGABYTE + k * TWO_MEGABYTES : g \in 0..2, k \in 0..2}
RegionEnds ==
    {x \in 0..MaxAddress :
        \E B \in Boundaries : x - B <= FOUR_KILOBYTES + 1 /\ B - x <= FOUR_KILOBYTES + 1}

PushInit ==
    /\ \E gb \in {Absent, NoFrame} : allocator = EmptyAllocator(gb)
    /\ mem = << >>
    /\ bytes = << >>
    /\ boot = NoBoot
    /\ pc = "start"
    /\ call = NoCall
    /\ ledger = EmptyLedger

PushScrap ==
    /\ pc = "start"
    /\ \E pair \in ScrapPairs, start \in RegionEnds, end \in RegionEnds :
          /\ start <= end
          /\ CallAddAlignedFramesWithScrap(pair[1], pair[2], start, end)
    /\ pc' = "done"

PushRegister ==
    /\ pc = "start"
    /\ \E start \in RegionEnds, end \in RegionEnds :
          /\ start <= end
          /\ CallRegisterMemoryRegion(start, end)
    /\ pc' = "done"

PushNext == PushScrap \/ PushRegister

SpecPush == PushInit /\ [][PushNext]_vars

\* ------------------------------------------------------------- SpecAlloc
\* Any sequence of at most MaxOps allocator calls on an allocator that starts
\* empty.  The regions handed over are pairwise disjoint.

MaxOps == 3

AllocInit ==
    /\ \E gb \in {Absent, NoFrame} : allocator = EmptyAllocator(gb)
    /\ mem = << >>
    /\ bytes = << >>
    /\ boot = NoBoot
    /\ pc = "calls"
    /\ call = NoCall
    /\ ledger = EmptyLedger

Fresh(start, end) == (start..(end - 1)) \cap ledger.given = {}

CanCall == pc = "calls" /\ ledger.ops < MaxOps

\* One frame per tier: the second frame of the tier's size, or the first.
AllocAddFrame ==
    /\ CanCall
    /\ \E t \in Tiers, k \in 0..1 :
          /\ Fresh(k * FrameSize(t), (k + 1) * FrameSize(t))
          /\ CallAddFrame(t, k * FrameSize(t))
    /\ pc' = pc

\* An aligned range of two frames.
AllocAddFrames ==
    /\ CanCall
    /\ \E t \in Tiers, k \in 0..1 :
          /\ Fresh(k * FrameSize(t), (k + 2) * FrameSize(t))
          /\ CallAddFrames(t, k * FrameSize(t), (k + 2) * FrameSize(t))
    /\ pc' = pc

\* Unaligned regions around a 2 MiB and around a 1 GiB boundary.
AllocScrapRegions ==
    {<<1, 2 * TWO_MEGABYTES + FOUR_KILOBYTES + 1>>,
     <<TWO_MEGABYTES - FOUR_KILOBYTES, 2 * TWO_MEGABYTES + 3 * FOUR_KILOBYTES>>,
     <<GIGABYTE - TWO_MEGABYTES - 1, 2 * GIGABYTE + TWO_MEGABYTES + 1>>}

AllocScrap ==
    /\ CanCall
    /\ \E pair \in ScrapPairs, region \in AllocScrapRegions :
          /\ Fresh(region[1], region[2])
          /\ CallAddAlignedFramesWithScrap(pair[1], pair[2], region[1], region[2])
    /\ pc' = pc

AllocGetFrame ==
    /\ CanCall
    /\ \E t \in Tiers : CallGetFrame(t)
    /\ pc' = pc

AllocGet2mbFrame == CanCall /\ CallGet2mbFrame /\ pc' = pc

AllocGet4kFrame == CanCall /\ CallGet4kFrame /\ pc' = pc

AllocNext ==
    \/ AllocAddFrame
    \/ AllocAddFrames
    \/ AllocScrap
    \/ AllocGetFrame
    \/ AllocGet2mbFrame
    \/ AllocGet4kFrame

SpecAlloc == AllocInit /\ [][AllocNext]_vars

\* C1: starting from an empty allocator, after any sequence of pushes of pairwise
\* disjoint regions and of pops, the memory on the three free lists is exactly
\* the tier-aligned frames pushed minus the frames the pops returned; no byte is
\* on two free frames and no frame is returned that was not pushed.
C1_FreeIsPushedMinusPopped ==
    /\ FreeBytes = ledger.pushed \ ledger.popped
    /\ ledger.popped \subseteq ledger.pushed
    /\ Cardinality(FreeBytes) =
           Len(Free4k) * FOUR_KILOBYTES + Len(Free2m) * TWO_MEGABYTES
               + Len(FreeGb) * GIGABYTE

\* A 4 KiB pop that fell down through both larger tiers, splitting a 1 GiB frame.
C1_Witness ==
    /\ call.op = "get_4k_frame"
    /\ call.ret # NoFrame
    /\ ledger.pushed # {}
    /\ Len(FreeGb) = 1
    /\ Len(Free2m) = TableEntries - 1
    /\ Len(Free4k) = TableEntries - 1

\* ------------------------------------------------------------- SpecDrain
\* The 4 KiB and 2 MiB tiers empty, a single frame G on the 1 GiB tier, and
\* get_4k_frame called until it returns none.

\* The frames G tried.
DrainFrames == {k * GIGABYTE : k \in 0..3}

DrainInit ==
    /\ \E G \in DrainFrames :
          LET r == add_frame(NoFrame, << >>, G)
          IN /\ allocator = [EmptyAllocator(NoFrame) EXCEPT !.gigabyte_pages = r.fa]
             /\ mem = r.mem
             /\ bytes = << >>
             /\ boot = NoBoot
             /\ call = [op |-> "add_frame", tier |-> "gigabyte_pages", start |-> G,
                        end |-> G + GIGABYTE]
             /\ ledger = [EmptyLedger EXCEPT !.given = G..(G + GIGABYTE - 1),
                                             !.pushed = G..(G + GIGABYTE - 1)]
    /\ pc = "drain"

DrainGet4kFrame ==
    /\ pc = "drain"
    /\ call.op = "get_4k_frame" => call.ret # NoFrame
    /\ CallGet4kFrame
    /\ pc' = pc

DrainNext == DrainGet4kFrame

SpecDrain == DrainInit /\ [][DrainNext]_vars

\* The frame G the drain started from (the only region handed over).
DrainG == CHOOSE G \in DrainFrames : G \in ledger.given

\* C10: from a single 1 GiB frame G, repeated get_4k_frame calls return every
\* 4 KiB-aligned address of [G, G + 1 GiB) exactly once; each fall-down pop
\* returns the lowest sub-frame of the frame it split and leaves the other
\* sub-frames free; the call after the last one returns none.
C10_DrainReturnsEveryFrameOnce ==
    LET returned == ledger.returned
        all == AlignedFramesIn(DrainG, DrainG + GIGABYTE, FOUR_KILOBYTES)
    IN /\ NoDuplicates(returned)
       /\ Range(returned) \subseteq all
       /\ FreeBytes = (DrainG..(DrainG + GIGABYTE - 1))
                          \ BytesOf(Range(returned), FOUR_KILOBYTES)
       /\ \A i \in 1..Len(returned) :
             FloorTo(returned[i], TWO_MEGABYTES)
                 = returned[((i - 1) \div TableEntries) * TableEntries + 1]
       /\ Len(returned) >= 1 => returned[1] = DrainG
       /\ (call.op = "get_4k_frame" /\ call.ret = NoFrame) => Range(returned) = all
       /\ (call.op = "get_4k_frame" /\ Range(returned) = all /\ call.ret # NoFrame)
             => FreeBytes = {}

\* Every 4 KiB frame of G has been returned and the next call returned none.
C10_Witness ==
    /\ call.op = "get_4k_frame"
    /\ call.ret = NoFrame
    /\ Len(ledger.returned) = TableEntries * TableEntries
    /\ FreeBytes = {}

\* ------------------------------------------------------------- SpecRegions
\* boot_os's computation of the free regions below max_address from the regions
\* in use (the kernel image, the boot information and the memory manager's
\* module), and their intersection with one area of the memory map.

\* The addresses the regions in use are drawn from.
MaxRegionAddress == 4

\* boot_os passes three regions in use.
RegionsInUse == 3

None == [none |-> TRUE]

range(start, end) == [start |-> start, end |-> end]

\* Range::is_empty
is_empty(r) == r.start >= r.end

RangeBytes(r) == r.start..(r.end - 1)

\* A bug: the intersection ends where the later of the two ranges ends.
intersect_to_later_end(a, b) == range(Max(a.start, b.start), Max(a.end, b.end))

intersect(a, b) == range(Max(a.start, b.start), Min(a.end, b.end))

\* sort_unstable_by on the start: any order of the slice with the starts
\* ascending (the order of regions with equal starts is not fixed).
sort_unstable_by_start(regions) ==
    LET n == Len(regions)
        perms == {p \in [1..n -> 1..n] : \A i, j \in 1..n : i # j => p[i] # p[j]}
    IN {[i \in 1..n |-> regions[p[i]]] : p \in
           {q \in perms : \A i \in 1..(n - 1) :
                 regions[q[i]].start <= regions[q[i + 1]].start}}

\* A bug: the gap of a window starts where its first region starts.
unused_memory_regions_from_starts(sorted, max_address) ==
    IF Len(sorted) = 0 THEN None
    ELSE <<range(0, sorted[1].start)>>
             \o [i \in 1..(Len(sorted) - 1) |-> range(sorted[i].start, sorted[i + 1].start)]
             \o <<range(sorted[Len(sorted)].end, max_address)>>

\* unused_memory_regions after the sort: the gap before the first region, the
\* gap of every window of two, the gap from the last region to max_address.
unused_memory_regions(sorted, max_address) ==
    IF Len(sorted) = 0 THEN None
    ELSE <<range(0, sorted[1].start)>>
             \o [i \in 1..(Len(sorted) - 1) |-> range(sorted[i].end, sorted[i + 1].start)]
             \o <<range(sorted[Len(sorted)].end, max_address)>>

unused_memory_regions_from_area(area, regions) ==
    LET nonempty(r) == ~is_empty(r)
    IN SelectSeq([i \in 1..Len(regions) |-> intersect(area, regions[i])], nonempty)

InUseRanges ==
    {range(a, b) : a \in 0..MaxRegionAddress, b \in 1..(MaxRegionAddress + 1)}
        \cap {r \in [start : 0..MaxRegionAddress, end : 1..(MaxRegionAddress + 1)] :
                 r.start < r.end}

RegionsInit ==
    /\ allocator = EmptyAllocator(NoFrame)
    /\ mem = << >>
    /\ bytes = << >>
    /\ boot = NoBoot
    /\ pc = "start"
    /\ ledger = EmptyLedger
    /\ \E n \in 0..RegionsInUse, max_address \in 0..MaxRegionAddress :
          \E in_use \in [1..n -> InUseRanges] :
             call = [op |-> "boot_os", in_use |-> in_use, max_address |-> max_address]

RegionsUnused ==
    /\ pc = "start"
    /\ \E sorted \in sort_unstable_by_start(call.in_use) :
          call' = [op |-> "unused_memory_regions", in_use |-> sorted,
                   max_address |-> call.max_address,
                   regions |-> unused_memory_regions(sorted, call.max_address)]
    /\ pc' = "regions"
    /\ UNCHANGED <<allocator, mem, bytes, boot, ledger>>

\* One area of the memory map: all of [0, max_address), or one starting above 0
\* and ending past max_address.
RegionsFromArea ==
    /\ pc = "regions"
    /\ call.regions # None
    /\ \E area \in {range(0, call.max_address), range(1, MaxRegionAddress + 2)} :
          call' = [op |-> "unused_memory_regions_from_area", in_use |-> call.in_use,
                   max_address |-> call.max_address, area |-> area,
                   regions |-> unused_memory_regions_from_area(area, call.regions)]
    /\ pc' = "area"
    /\ UNCHANGED <<allocator, mem, bytes, boot, ledger>>

RegionsNext == RegionsUnused \/ RegionsFromArea

SpecRegions == RegionsInit /\ [][RegionsNext]_vars

UnionOf(regions) == UNION {RangeBytes(regions[i]) : i \in 1..Len(regions)}

\* C5: for any list of regions in use (any order, overlapping and nested ones
\* included) and any max_address, the non-empty ranges unused_memory_regions
\* produces cover exactly [0, max_address) minus the regions in use.
C5_UnusedIsComplement ==
    (call.op = "unused_memory_regions" /\ call.regions # None) =>
        UnionOf(SelectSeq(call.regions, LAMBDA r : ~is_empty(r)))
            = (0..(call.max_address - 1)) \ UnionOf(call.in_use)

\* ------------------------------------------------------------- page tables
\* Levels are the source's page_table_level: 3 is the root (level-4) table, 0 the
\* table whose entries map 4 KiB pages.

RECURSIVE page_size(_)
page_size(page_table_level) ==
    IF page_table_level = 0 THEN FOUR_KILOBYTES
    ELSE page_size(page_table_level - 1) * TableEntries

offset_in_page(page_table_level, address) == address % page_size(page_table_level)

\* The index of the entry of a table of this level that covers `address`.
page_table_entry(page_table_level, address) ==
    (address \div page_size(page_table_level)) % TableEntries

\* The indices page_table_entries iterates: skip(first_index).take(last + 1 - first).
page_table_entries(page_table_level, base_address, size) ==
    LET first_index == page_table_entry(page_table_level, base_address)
        count == page_table_entry(page_table_level, base_address + size - 1)
                     + 1 - first_index
    IN [first |-> first_index, count |-> Min(count, TableEntries - first_index)]

number_of_bytes_for_page(page_table_level, page_offset, size, data_offset) ==
    Min(page_size(page_table_level) - page_offset, size - data_offset)

\* usize.  The scaled machine word spans the address space of the four levels
\* of page tables.  An addition that leaves it wraps in a build without
\* overflow checks and panics in a build with them.
WordModulus == TableEntries * page_size(3)
wrapping_add(a, b) == (a + b) % WordModulus
overflows(a, b) == a + b >= WordModulus

\* &src[index.min(src.len())..(index + len).min(src.len())], where it does not
\* panic.
slice_with_bounds_check(src, index, len) ==
    SubSeq(src, Min(index, Len(src)) + 1, Min(wrapping_add(index, len), Len(src)))

\* The same expression panics: in the sum, in a build with overflow checks, or
\* in the range, whose start lies past its end when the sum has wrapped.
slice_with_bounds_check_panics(src, index, len, overflow_checks) ==
    \/ overflow_checks /\ overflows(index, len)
    \/ Min(index, Len(src)) > Min(wrapping_add(index, len), Len(src))

\* SegmentFlags is the flags word of the program header.
ELF_WRITABLE_SEGMENT == 2
ELF_EXECUTABLE_SEGMENT == 1
writable(segment_flags) == (segment_flags \div ELF_WRITABLE_SEGMENT) % 2 = 1
executable(segment_flags) == (segment_flags \div ELF_EXECUTABLE_SEGMENT) % 2 = 1

user_accessible_page == {PRESENT, USER_ACCESSIBLE}
interrupt_stack_flags == {PRESENT, WRITABLE, NO_EXECUTE}

\* The entry set_page_table_entry writes.
set_page_table_entry(address, segment_flags) ==
    Entry(address,
          user_accessible_page
              \cup (IF writable(segment_flags) THEN {WRITABLE} ELSE {})
              \cup (IF ~executable(segment_flags) THEN {NO_EXECUTE} ELSE {}))

\* The entry update_page_table_entry_flags leaves.
update_page_table_entry_flags(entry, segment_flags) ==
    Entry(entry.addr,
          (entry.flags \cup (IF writable(segment_flags) THEN {WRITABLE} ELSE {}))
              \ (IF executable(segment_flags) THEN {NO_EXECUTE} ELSE {}))

\* PageTable::zero, and write_bytes(0, FOUR_KILOBYTES) on the words of a frame.
ZeroWords(m, frame) ==
    [c \in DOMAIN m \cup {<<frame, i>> : i \in 0..(TableEntries - 1)} |->
        IF c[1] = frame THEN Unused ELSE m[c]]

\* write_bytes(0, FOUR_KILOBYTES) on the bytes of a frame.
ZeroBytes(b, frame) ==
    [x \in DOMAIN b \cup (frame..(frame + FOUR_KILOBYTES - 1)) |->
        IF x >= frame /\ x < frame + FOUR_KILOBYTES THEN 0 ELSE b[x]]

\* copy_and_zero_fill on the `len` bytes at `dest`.
copy_and_zero_fill(b, dest, len, src) ==
    [x \in DOMAIN b \cup (dest..(dest + len - 1)) |->
        IF x >= dest /\ x < dest + len
        THEN (IF x - dest < Len(src) THEN src[x - dest + 1] ELSE 0)
        ELSE b[x]]

\* The machine while it copies: the allocator, memory, the bytes of the frames
\* taken from the allocator so far, and whether the result so far is Some(()).
Machine(a, m, b) == [alloc |-> a, mem |-> m, bytes |-> b, got |-> {}, ok |-> TRUE]

\* self.allocator.get_4k_frame() inside a step of the machine: the frame (or
\* NoFrame) and the machine after the call.
Took(st, g) ==
    [ret |-> g.ret,
     st |-> [st EXCEPT !.alloc = g.alloc, !.mem = g.mem,
                       !.got = IF g.ret = NoFrame THEN @
                               ELSE @ \cup (g.ret..(g.ret + FOUR_KILOBYTES - 1))]]

Take4k(st) == Took(st, get_4k_frame(st.alloc, st.mem))

\* Amd64::copy_into_address_space (the inherent method, with the level).  The
\* loop over the entries is copy_entries; `loop` holds its variables, and each
\* operator below is one statement of its body, given what the statements
\* before it computed.
RECURSIVE copy_into_address_space(_, _, _, _, _, _, _)
RECURSIVE copy_entries(_, _)

\* data_offset += bytes_for_page; address += bytes_for_page; and the next entry.
\* A None of the recursive call ends the function with None.
CopyNext(st, loop, bytes_for_page) ==
    IF ~st.ok THEN st
    ELSE copy_entries(st, [loop EXCEPT !.index = @ + 1, !.count = @ - 1,
                                       !.address = @ + bytes_for_page,
                                       !.data_offset = @ + bytes_for_page])

\* The copy into the page, or the recursive call into the table the entry names.
CopyPage(st, loop, page, page_offset, bytes_for_page, data_for_entry) ==
    CopyNext(
        IF loop.page_table_level = 0
              \/ HUGE_PAGE \in Load(st.mem, loop.page_table, loop.index).flags
        THEN [st EXCEPT !.bytes = copy_and_zero_fill(@, page + page_offset,
                                                     bytes_for_page, data_for_entry)]
        ELSE copy_into_address_space(st, loop.page_table_level - 1, page, loop.address,
                                     data_for_entry, bytes_for_page, loop.flags),
        loop, bytes_for_page)

CopySlice(st, loop, page, page_offset, bytes_for_page) ==
    CopyPage(st, loop, page, page_offset, bytes_for_page,
             slice_with_bounds_check(loop.data, loop.data_offset, bytes_for_page))

CopyInto(st, loop, page, page_offset) ==
    CopySlice(st, loop, page, page_offset,
              number_of_bytes_for_page(loop.page_table_level, page_offset, loop.size,
                                       loop.data_offset))

\* The entry was unused: a new frame, or None when there is none.
CopyNew(taken, loop) ==
    IF taken.ret = NoFrame THEN [taken.st EXCEPT !.ok = FALSE]
    ELSE CopyInto([taken.st EXCEPT
                     !.mem = ZeroWords(Store(@, loop.page_table, loop.index,
                                             set_page_table_entry(taken.ret, loop.flags)),
                                       taken.ret),
                     !.bytes = ZeroBytes(@, taken.ret)],
                  loop, taken.ret, offset_in_page(loop.page_table_level, loop.address))

\* The entry was in use: its flags are updated and its address is the page.
CopyOld(st, loop, entry) ==
    CopyInto([st EXCEPT !.mem = Store(@, loop.page_table, loop.index,
                                      update_page_table_entry_flags(entry, loop.flags))],
             loop, entry.addr, offset_in_page(loop.page_table_level, loop.address))

copy_entries(st, loop) ==
    IF loop.count <= 0 THEN st
    ELSE IF Load(st.mem, loop.page_table, loop.index) = Unused
    THEN CopyNew(Take4k(st), loop)
    ELSE CopyOld(st, loop, Load(st.mem, loop.page_table, loop.index))

CopyLoop(page_table_level, page_table, entries, address, data, size, flags) ==
    [page_table_level |-> page_table_level, page_table |-> page_table,
     index |-> entries.first, count |-> entries.count, address |-> address,
     data |-> data, size |-> size, flags |-> flags, data_offset |-> 0]

copy_into_address_space(st, page_table_level, page_table, address, data, size, flags) ==
    copy_entries(st, CopyLoop(page_table_level, page_table,
                              page_table_entries(page_table_level, address, size),
                              address, data, size, flags))

\* ------------------------------------------------------------- address-space builder

\* The tables the kernel was linked with (boot assembly): where they lie.
KernelStart == 5 * FOUR_KILOBYTES
p4_table == KernelStart
p3_table == KernelStart + FOUR_KILOBYTES
p2_tables(k) == KernelStart + (2 + k) * FOUR_KILOBYTES

\* The number of GiB the kernel's tables map at entry (INITIAL_VIRTUAL_MEMORY_SIZE).
InitialGigabytes == 4
INITIAL_VIRTUAL_MEMORY_SIZE == InitialGigabytes * GIGABYTE

\* The kernel's tables at entry: level-4 entry 0 points to the level-3 table,
\* whose first four entries identity-map the first 4 GiB: with 1 GiB pages when
\* the processor has them, and through four level-2 tables of 2 MiB pages when
\* it has not.
KernelTables(gigabyte_pages) ==
    LET cells == {<<p4_table, 0>>}
                   \cup {<<p3_table, k>> : k \in 0..(InitialGigabytes - 1)}
                   \cup (IF gigabyte_pages
                         THEN {}
                         ELSE {<<p2_tables(k), j>> : k \in 0..(InitialGigabytes - 1),
                                                     j \in 0..(TableEntries - 1)})
    IN [c \in cells |->
          IF c[1] = p4_table THEN Entry(p3_table, {PRESENT, WRITABLE})
          ELSE IF c[1] = p3_table
          THEN (IF gigabyte_pages
                THEN Entry(c[2] * GIGABYTE, {PRESENT, WRITABLE, HUGE_PAGE})
                ELSE Entry(p2_tables(c[2]), {PRESENT, WRITABLE}))
          ELSE Entry(((c[1] - p2_tables(0)) \div FOUR_KILOBYTES) * GIGABYTE
                         + c[2] * TWO_MEGABYTES,
                     {PRESENT, WRITABLE, HUGE_PAGE})]

\* The frames of the kernel's tables.
KernelTableFrames(gigabyte_pages) ==
    {p4_table, p3_table}
        \cup (IF gigabyte_pages THEN {}
              ELSE {p2_tables(k) : k \in 0..(InitialGigabytes - 1)})

\* 0x1ff, the last entry of a table; 0x100, the entry of the interrupt stack.
LastEntry == TableEntries - 1
InterruptStackEntry == TableEntries \div 2

set_entry(m, page_table, index, address, flags) ==
    Store(m, page_table, index, Entry(address, flags))

set_last_entry(m, page_table, address, flags) ==
    set_entry(m, page_table, LastEntry, address, flags)

clear_and_set_last_entry(m, page_table, address, flags) ==
    set_last_entry(ZeroWords(m, page_table), page_table, address, flags)

\* Amd64::initialize_memory_manager_page_tables: the machine it leaves and the
\* root table it returns (NoFrame for None).  Each operator below is the part of
\* the function after one `get_4k_frame()?`, given the frame that call took:
\* none ends the function with None.
Failed(st) == [st |-> [st EXCEPT !.ok = FALSE], root |-> NoFrame]

BuilderFlags == user_accessible_page \cup {WRITABLE}

\* set_last_entry(p1_table, frame, interrupt_stack_flags); Some(root_table_pointer)
BuildInterruptPage(taken, root_table, p1_table) ==
    IF taken.ret = NoFrame THEN Failed(taken.st)
    ELSE [st |-> [taken.st EXCEPT !.mem = set_last_entry(@, p1_table, taken.ret,
                                                         interrupt_stack_flags)],
          root |-> root_table]

\* set_entry(p2_table, 0x100, p1_table_addr, interrupt_stack_flags)
BuildInterruptTable(taken, root_table, p2_table) ==
    IF taken.ret = NoFrame THEN Failed(taken.st)
    ELSE BuildInterruptPage(
             Take4k([taken.st EXCEPT !.mem = set_entry(@, p2_table, InterruptStackEntry,
                                                       taken.ret, interrupt_stack_flags)]),
             root_table, taken.ret)

\* The entries of the four 4 KiB pages of the user stack: 0x1ff, 0x1fd, 0x1fc, 0x1fb.
StackPageEntries == <<LastEntry, LastEntry - 2, LastEntry - 3, LastEntry - 4>>

RECURSIVE BuildStackPage(_, _, _, _, _)
\* The k-th page of the stack: the first with clear_and_set_last_entry, the
\* others with set_entry.
BuildStackPage(taken, root_table, p2_table, p1_table, k) ==
    IF taken.ret = NoFrame THEN Failed(taken.st)
    ELSE IF k = 1
    THEN BuildStackPage(
             Take4k([taken.st EXCEPT
                       !.mem = clear_and_set_last_entry(@, p1_table, taken.ret,
                                                        BuilderFlags \cup {NO_EXECUTE})]),
             root_table, p2_table, p1_table, k + 1)
    ELSE IF k < Len(StackPageEntries)
    THEN BuildStackPage(
             Take4k([taken.st EXCEPT
                       !.mem = set_entry(@, p1_table, StackPageEntries[k], taken.ret,
                                         BuilderFlags \cup {NO_EXECUTE})]),
             root_table, p2_table, p1_table, k + 1)
    ELSE BuildInterruptTable(
             Take4k([taken.st EXCEPT
                       !.mem = set_entry(@, p1_table, StackPageEntries[k], taken.ret,
                                         BuilderFlags \cup {NO_EXECUTE})]),
             root_table, p2_table)

\* clear_and_set_last_entry(p2_table, p1_table_addr, flags)
BuildStackTable(taken, root_table, p2_table) ==
    IF taken.ret = NoFrame THEN Failed(taken.st)
    ELSE BuildStackPage(
             Take4k([taken.st EXCEPT
                       !.mem = clear_and_set_last_entry(@, p2_table, taken.ret,
                                                        BuilderFlags)]),
             root_table, p2_table, taken.ret, 1)

\* if let Some(huge_stack) = self.allocator.get_2mb_frame(): one 2 MiB page at
\* the last entry of the level-2 table; else a level-1 table.
BuildStack(st, huge_stack, root_table, p2_table) ==
    IF huge_stack.ret # NoFrame
    THEN BuildInterruptTable(
             Take4k([st EXCEPT
                       !.alloc = huge_stack.alloc,
                       !.mem = clear_and_set_last_entry(
                                   huge_stack.mem, p2_table, huge_stack.ret,
                                   BuilderFlags \cup {HUGE_PAGE, NO_EXECUTE}),
                       !.got = @ \cup (huge_stack.ret..(huge_stack.ret + TWO_MEGABYTES - 1))]),
             root_table, p2_table)
    ELSE BuildStackTable(
             Take4k([st EXCEPT !.alloc = huge_stack.alloc, !.mem = huge_stack.mem]),
             root_table, p2_table)

BuildStackIn(st, root_table, p2_table) ==
    BuildStack(st, get_2mb_frame(st.alloc, st.mem), root_table, p2_table)

\* clear_and_set_last_entry(p3_table, p2_table_addr, flags)
BuildLevel2(taken, root_table, p3_table_addr) ==
    IF taken.ret = NoFrame THEN Failed(taken.st)
    ELSE BuildStackIn([taken.st EXCEPT
                         !.mem = clear_and_set_last_entry(@, p3_table_addr, taken.ret,
                                                          BuilderFlags)],
                      root_table, taken.ret)

\* set_last_entry(root_table, p3_table_addr, flags)
BuildLevel3(taken, root_table) ==
    IF taken.ret = NoFrame THEN Failed(taken.st)
    ELSE BuildLevel2(Take4k([taken.st EXCEPT
                               !.mem = set_last_entry(@, root_table, taken.ret,
                                                      BuilderFlags)]),
                     root_table, taken.ret)

\* root_table.zero(); root_table[0] = p4_table[0].clone()
BuildRoot(taken) ==
    IF taken.ret = NoFrame THEN Failed(taken.st)
    ELSE BuildLevel3(Take4k([taken.st EXCEPT
                               !.mem = Store(ZeroWords(@, taken.ret), taken.ret, 0,
                                             Load(@, p4_table, 0))]),
                     taken.ret)

initialize_memory_manager_page_tables(st) == BuildRoot(Take4k(st))

\* ------------------------------------------------------------- the ELF module

\* size_of::<ElfHeader>() and size_of::<ProgramHeader>()
ElfHeaderSize == 64
ProgramHeaderSize == 56

ELF_MAGIC_NUMBER == 1179403647
ELF_64_BIT == 2
ELF_LITTLE_ENDIAN == 1
ELF_EXECUTABLE == 2
ELF_X86_64 == 62
ELF_LOADABLE_SEGMENT == 1

\* The checks of is_valid before the sum.
is_valid_before_sum(header, file_size) ==
    /\ ElfHeaderSize <= file_size
    /\ header.ident_magic = ELF_MAGIC_NUMBER
    /\ header.ident_width_class = ELF_64_BIT
    /\ header.ident_data_endianness = ELF_LITTLE_ENDIAN
    /\ header.ident_version = 1
    /\ header.file_type = ELF_EXECUTABLE
    /\ header.machine = ELF_X86_64

\* is_valid reaches the sum (&& is lazy) and the sum leaves the word.
is_valid_overflows(header, file_size) ==
    /\ is_valid_before_sum(header, file_size)
    /\ overflows(header.program_header_offset,
                 header.program_header_num * ProgramHeaderSize)

\* is_valid, the sum wrapping.
is_valid(header, file_size) ==
    /\ ElfHeaderSize <= file_size
    /\ header.ident_magic = ELF_MAGIC_NUMBER
    /\ header.ident_width_class = ELF_64_BIT
    /\ header.ident_data_endianness = ELF_LITTLE_ENDIAN
    /\ header.ident_version = 1
    /\ header.file_type = ELF_EXECUTABLE
    /\ header.machine = ELF_X86_64
    /\ wrapping_add(header.program_header_offset,
                    header.program_header_num * ProgramHeaderSize) <= file_size

\* The byte of the module at an offset: never zero, so that a zero-filled byte
\* and a copied byte differ.
FileByte(offset) == (offset % 3) + 1

\* slice::from_raw_parts(module + offset, file_size): the bytes of the module,
\* and for a position outside the module whatever memory holds there.
FileBytes(module, offset, file_size) ==
    [i \in 1..file_size |->
        IF wrapping_add(offset, i - 1) < module.len
        THEN FileByte(wrapping_add(offset, i - 1))
        ELSE module.outside]

\* ------------------------------------------------------------- reading an address space

Fault == 0 - 1
Unwritten == 0 - 2

RECURSIVE Walk(_, _, _, _)
\* The physical address the processor reaches for a virtual address, from the
\* table `page_table` of the given level down; Fault when an entry is not present.
Walk(m, page_table, page_table_level, address) ==
    LET entry == Load(m, page_table, page_table_entry(page_table_level, address))
    IN IF PRESENT \notin entry.flags THEN Fault
       ELSE IF page_table_level = 0 \/ HUGE_PAGE \in entry.flags
       THEN entry.addr + offset_in_page(page_table_level, address)
       ELSE Walk(m, entry.addr, page_table_level - 1, address)

Translate(m, root, address) == Walk(m, root, 3, address)

\* The byte read at a virtual address through the address space of `root`.
ReadByte(m, b, root, address) ==
    LET physical == Translate(m, root, address)
    IN IF physical = Fault THEN Fault
       ELSE IF physical \in DOMAIN b THEN b[physical] ELSE Unwritten

\* ------------------------------------------------------------- SpecLoad
\* load_memory_manager and the hand-off, from the state boot_os leaves after it
\* has registered the free memory: the kernel's tables, an allocator holding
\* some 4 KiB and some 2 MiB frames, and the memory manager's module.

\* The 4 KiB and 2 MiB frames free at most when loading starts.
MaxSmallFrames == 12
MaxLargeFrames == 2
\* The numbers of free 4 KiB frames tried.
SmallChoices == {0, 2, 5, MaxSmallFrames - 2, MaxSmallFrames}
\* The file_size and memory_size of the first segment: nothing, a byte, a page,
\* a byte more than a page (file_size may exceed memory_size).
FileSizes == {0, 1, FOUR_KILOBYTES}
MemorySizes == {1, FOUR_KILOBYTES, FOUR_KILOBYTES + 1}

ModuleStart == 3 * TWO_MEGABYTES
FreeStart == 4 * TWO_MEGABYTES

\* Free 4 KiB frames come from regions that hold no whole 2 MiB frame: region i
\* is the 2 MiB frame i after FreeStart without its first 4 KiB.
SmallRegion(i, n) ==
    range(FreeStart + i * TWO_MEGABYTES + FOUR_KILOBYTES,
          FreeStart + i * TWO_MEGABYTES + FOUR_KILOBYTES
              + FOUR_KILOBYTES * Max(0, Min(LastEntry, n - i * LastEntry)))

SmallRegions == (MaxSmallFrames + LastEntry - 1) \div LastEntry

LargeRegion(n) ==
    range(FreeStart + SmallRegions * TWO_MEGABYTES,
          FreeStart + SmallRegions * TWO_MEGABYTES + n * TWO_MEGABYTES)

FreeRegions(small, large) ==
    [i \in 1..SmallRegions |-> SmallRegion(i - 1, small)] \o <<LargeRegion(large)>>

RECURSIVE RegisterAll(_, _, _)
\* proc.register_memory_region for each region from the k-th on; `x` is the
\* allocator and memory so far.
RegisterAll(x, regions, k) ==
    IF k > Len(regions) THEN x
    ELSE RegisterAll(register_memory_region(x.alloc, x.mem, regions[k].start,
                                            regions[k].end),
                     regions, k + 1)

\* initialize_operating_system before boot_os: with 1 GiB pages the two level-2
\* tables are free 4 KiB frames and the 1 GiB tier exists.
AllocatorAtEntry(gigabyte_pages) ==
    IF gigabyte_pages
    THEN LET r0 == add_frame(NoFrame, KernelTables(TRUE), p2_tables(0))
             r1 == add_frame(r0.fa, r0.mem, p2_tables(1))
         IN [alloc |-> [EmptyAllocator(NoFrame) EXCEPT !.four_kilobyte_pages = r1.fa],
             mem |-> r1.mem]
    ELSE [alloc |-> EmptyAllocator(Absent), mem |-> KernelTables(FALSE)]

VirtualAddress(i4, i3, i2, i1, offset) ==
    i4 * page_size(3) + i3 * page_size(2) + i2 * page_size(1) + i1 * page_size(0) + offset

\* Where segments are linked: under the builder's level-2 table (aligned,
\* unaligned, on the last byte of a level-1 table, under the interrupt stack's
\* entry), on the last byte of a level-4 entry no table covers yet, and below
\* 512 GiB (on the module's own physical address, and past the kernel's map).
SegmentAddresses ==
    {VirtualAddress(LastEntry, LastEntry, 0, 0, 0),
     VirtualAddress(LastEntry, LastEntry, 0, 0, 1),
     VirtualAddress(LastEntry, LastEntry, 0, LastEntry, FOUR_KILOBYTES - 1),
     VirtualAddress(LastEntry, LastEntry, InterruptStackEntry, 0, 0),
     VirtualAddress(2, LastEntry, LastEntry, LastEntry, FOUR_KILOBYTES - 1),
     VirtualAddress(0, 0, 0, 0, ModuleStart),
     VirtualAddress(0, LastEntry, 0, 0, 0)}

ValidHeader(segments) ==
    [ident_magic |-> ELF_MAGIC_NUMBER, ident_width_class |-> ELF_64_BIT,
     ident_data_endianness |-> ELF_LITTLE_ENDIAN, ident_version |-> 1,
     file_type |-> ELF_EXECUTABLE, machine |-> ELF_X86_64,
     entry |-> VirtualAddress(LastEntry, LastEntry, 0, 0, 0),
     program_header_offset |-> ElfHeaderSize, program_header_num |-> segments]

ProgramHeader(type, flags, offset, address, file_size, memory_size) ==
    [segment_type |-> type, flags |-> flags, offset |-> offset,
     virtual_address |-> address, file_size |-> file_size, memory_size |-> memory_size]

\* The bytes of the module after the program headers.
DataBytes == 2 * FOUR_KILOBYTES
DataStart(segments) == ElfHeaderSize + segments * ProgramHeaderSize

\* The first segments that come with a second one.
SharedAddresses ==
    {VirtualAddress(LastEntry, LastEntry, 0, 0, 0),
     VirtualAddress(LastEntry, LastEntry, 0, 0, 1)}

\* A second segment: a segment that is not LOAD, a writable segment in the
\* page after the first aligned address, or an executable one in the same page
\* as the unaligned address.
SecondSegments ==
    {<<ProgramHeader(2, 4, DataStart(2), VirtualAddress(LastEntry, LastEntry, 1, 0, 0), 1, 1)>>,
     <<ProgramHeader(ELF_LOADABLE_SEGMENT, 6, DataStart(2) + FOUR_KILOBYTES,
                     VirtualAddress(LastEntry, LastEntry, 0, 1, 0), 1, 2)>>,
     <<ProgramHeader(ELF_LOADABLE_SEGMENT, 5, DataStart(2) + FOUR_KILOBYTES,
                     VirtualAddress(LastEntry, LastEntry, 0, 0, 0), 1, 1)>>}

SegmentMemory(s) == s.virtual_address..(s.virtual_address + s.memory_size - 1)

\* A LOAD segment of one page under the builder's level-2 table.
PlainSegment(offset, file_size, memory_size) ==
    ProgramHeader(ELF_LOADABLE_SEGMENT, 4, offset,
                  VirtualAddress(LastEntry, LastEntry, 0, 0, 0), file_size, memory_size)

\* Headers with one field wrong each (the machine is PowerPC), and program
\* header tables that end one byte past the module, that start at the last
\* word, and whose end wraps to 0.
FaultyHeaders ==
    {[ValidHeader(1) EXCEPT !.ident_width_class = 1],
     [ValidHeader(1) EXCEPT !.ident_data_endianness = 2],
     [ValidHeader(1) EXCEPT !.ident_version = 0],
     [ValidHeader(1) EXCEPT !.file_type = 3],
     [ValidHeader(1) EXCEPT !.machine = 20],
     [ValidHeader(1) EXCEPT !.program_header_offset = ElfHeaderSize + DataBytes + 1],
     [ValidHeader(1) EXCEPT !.program_header_offset = WordModulus - 1],
     [ValidHeader(1) EXCEPT !.program_header_offset = WordModulus - ProgramHeaderSize]}

\* Segments whose file bytes end one byte past the module, start at the last
\* word and wrap, or are more than the segment's memory.
FaultySegments ==
    {PlainSegment(DataStart(1) + DataBytes - 1, FOUR_KILOBYTES, FOUR_KILOBYTES),
     PlainSegment(WordModulus - 1, 1, 1),
     PlainSegment(DataStart(1), FOUR_KILOBYTES, 1)}

\* What memory holds outside the module.
OutsideBytes == {0, 5}

\* The modules with a fault.  The program header of a module whose table lies
\* outside the module is what memory holds there: a LOAD segment or not.
FaultyModules ==
    {[len |-> DataStart(1) + DataBytes, header |-> h,
      segments |-> <<[PlainSegment(DataStart(1), 1, 1) EXCEPT !.segment_type = t]>>,
      outside |-> 0] :
         h \in FaultyHeaders, t \in {ELF_LOADABLE_SEGMENT, 2}}
        \cup {[len |-> ElfHeaderSize - 1, header |-> ValidHeader(0), segments |-> << >>,
               outside |-> 0]}
        \cup {[len |-> DataStart(1) + DataBytes, header |-> ValidHeader(1),
               segments |-> <<f>>, outside |-> o] :
                  f \in FaultySegments, o \in OutsideBytes}

\* An addition of the loader leaves the word for this module.
ModuleOverflows(module) ==
    \/ is_valid_overflows(module.header, module.len)
    \/ \E i \in 1..Len(module.segments) :
          overflows(module.segments[i].offset, module.segments[i].file_size)

Modules ==
    LET firsts(n) == {ProgramHeader(ELF_LOADABLE_SEGMENT, flags, DataStart(n), address,
                                    file_size, memory_size) :
                         flags \in {4, 5, 6}, address \in SegmentAddresses,
                         file_size \in FileSizes, memory_size \in MemorySizes}
        lists == {<<f>> : f \in firsts(1)}
                     \cup {<<f>> \o second :
                              f \in {g \in firsts(2) : g.virtual_address \in SharedAddresses},
                              second \in SecondSegments}
        disjoint == {l \in lists : Len(l) = 2 /\ l[2].segment_type = ELF_LOADABLE_SEGMENT
                                       => SegmentMemory(l[1]) \cap SegmentMemory(l[2]) = {}}
    IN {[len |-> DataStart(Len(l)) + DataBytes, header |-> ValidHeader(Len(l)),
         segments |-> l, outside |-> 0] : l \in disjoint}
           \cup {[len |-> DataStart(0) + DataBytes,
                  header |-> [ValidHeader(0) EXCEPT !.ident_magic = 0],
                  segments |-> << >>, outside |-> 0]}
           \cup FaultyModules

LoadInit ==
    /\ pc = "load_memory_manager"
    /\ call = NoCall
    /\ bytes = << >>
    /\ ledger = EmptyLedger
    /\ \E gigabyte_pages \in BOOLEAN, small \in SmallChoices,
          large \in 0..MaxLargeFrames, module \in Modules, overflow_checks \in BOOLEAN :
          LET r == RegisterAll(AllocatorAtEntry(gigabyte_pages),
                               FreeRegions(small, large), 1)
          IN /\ overflow_checks => ModuleOverflows(module)
             /\ allocator = r.alloc
             /\ mem = r.mem
             /\ boot = [gigabyte_pages |-> gigabyte_pages, module |-> module,
                        root |-> NoFrame, segment |-> 1,
                        overflow_checks |-> overflow_checks]

\* What a step of the machine leaves.
MachineStep(st) ==
    /\ allocator' = st.alloc
    /\ mem' = st.mem
    /\ bytes' = st.bytes

\* load_memory_manager: the root table, or None.
LoadInitializeTables ==
    /\ pc = "load_memory_manager"
    /\ LET r == initialize_memory_manager_page_tables(Machine(allocator, mem, bytes))
       IN /\ MachineStep(r.st)
          /\ boot' = [boot EXCEPT !.root = r.root]
          /\ call' = [op |-> "initialize_memory_manager_page_tables", ret |-> r.root]
          /\ ledger' = [ledger EXCEPT !.popped = @ \cup r.st.got]
          /\ pc' = IF r.root = NoFrame THEN "none" ELSE "header"

\* load_memory_manager: None for a header that is not valid.
LoadCheckHeader ==
    /\ pc = "header"
    /\ pc' = IF boot.overflow_checks
                   /\ is_valid_overflows(boot.module.header, boot.module.len)
             THEN "panic"
             ELSE IF is_valid(boot.module.header, boot.module.len) THEN "segments"
             ELSE "none"
    /\ call' = [op |-> "is_valid",
                ret |-> is_valid(boot.module.header, boot.module.len)]
    /\ UNCHANGED <<allocator, mem, bytes, boot, ledger>>

\* load_memory_manager: one turn of the loop over the LOAD segments.  The
\* result of copy_into_address_space is not looked at.
LoadSegment ==
    /\ pc = "segments"
    /\ boot.segment <= boot.module.header.program_header_num
    /\ LET segment_header == boot.module.segments[boot.segment]
           copied == copy_into_address_space(
                         Machine(allocator, mem, bytes), 3, boot.root,
                         segment_header.virtual_address,
                         FileBytes(boot.module, segment_header.offset,
                                   segment_header.file_size),
                         segment_header.memory_size, segment_header.flags)
       IN IF segment_header.segment_type # ELF_LOADABLE_SEGMENT
          THEN /\ pc' = pc
               /\ boot' = [boot EXCEPT !.segment = @ + 1]
               /\ call' = [op |-> "filter", segment |-> boot.segment]
               /\ UNCHANGED <<allocator, mem, bytes, ledger>>
          ELSE IF boot.overflow_checks
                     /\ overflows(segment_header.offset, segment_header.file_size)
          THEN /\ pc' = "panic"
               /\ call' = [op |-> "panic", segment |-> boot.segment]
               /\ UNCHANGED <<allocator, mem, bytes, boot, ledger>>
          ELSE IF \/ wrapping_add(segment_header.offset, segment_header.file_size)
                         > boot.module.len
                  \/ segment_header.file_size > segment_header.memory_size
          THEN /\ pc' = "none"
               /\ call' = [op |-> "load_memory_manager", ret |-> None]
               /\ UNCHANGED <<allocator, mem, bytes, boot, ledger>>
          ELSE /\ MachineStep(copied)
               /\ pc' = pc
               /\ boot' = [boot EXCEPT !.segment = @ + 1]
               /\ call' = [op |-> "copy_into_address_space", segment |-> boot.segment,
                           ret |-> copied.ok]
               /\ ledger' = [ledger EXCEPT !.popped = @ \cup copied.got,
                                           !.copies = Append(@, copied.ok)]

\* load_memory_manager: Some(ProcessLaunchInfo) after the last segment.
LoadReturn ==
    /\ pc = "segments"
    /\ boot.segment > boot.module.header.program_header_num
    /\ pc' = "some"
    /\ call' = [op |-> "load_memory_manager",
                ret |-> [root_page_table_address |-> boot.root,
                         entry_point |-> boot.module.header.entry]]
    /\ UNCHANGED <<allocator, mem, bytes, boot, ledger>>

\* initialize_operating_system: boot_os gave the launch info; hand-off.
LaunchMemoryManager ==
    /\ pc = "some"
    /\ pc' = "launched"
    /\ call' = [op |-> "launch_memory_manager", root |-> boot.root]
    /\ UNCHANGED <<allocator, mem, bytes, boot, ledger>>

\* initialize_operating_system returned None: main halts.  The panic handler
\* halts too.
Halt ==
    /\ pc \in {"none", "panic"}
    /\ pc' = "halted"
    /\ call' = [op |-> "halt"]
    /\ UNCHANGED <<allocator, mem, bytes, boot, ledger>>

LoadNext ==
    \/ LoadInitializeTables
    \/ LoadCheckHeader
    \/ LoadSegment
    \/ LoadReturn
    \/ LaunchMemoryManager
    \/ Halt

SpecLoad == LoadInit /\ [][LoadNext]_vars

\* ------------------------------------------------------------- identity mapper
\* micros_kernel_common and micros_kernel_amd64: the revision of the kernel that
\* maps physical memory past the first 4 GiB into the active root table.  `x` is
\* the allocator and memory, [alloc, mem].

MemoryState(virtual_memory_size, last_frame_added_to_allocator) ==
    [virtual_memory_size |-> virtual_memory_size,
     last_frame_added_to_allocator |-> last_frame_added_to_allocator]

kernel_page_table_flags == {PRESENT, WRITABLE, USER_ACCESSIBLE}
kernel_page_flags == kernel_page_table_flags \cup {HUGE_PAGE}

kernel_page_size(a) == IF a.gigabyte_pages # Absent THEN GIGABYTE ELSE TWO_MEGABYTES

\* A bug: the offsets name no entry as populated at the root.
initial_page_table_counts_from_zero(a) ==
    IF a.gigabyte_pages # Absent THEN <<0>> ELSE <<0, InitialGigabytes>>

initial_page_table_counts(a) ==
    IF a.gigabyte_pages # Absent THEN <<1>> ELSE <<1, InitialGigabytes>>

\* An area of the firmware's memory map.
MemoryArea(start, end, typ) == [start |-> start, end |-> end, typ |-> typ]

\* A bug: an area of any type counts as available.
available_memory_areas_of_any_type(memory_map) == memory_map

available_memory_areas(memory_map) ==
    SelectSeq(memory_map, LAMBDA area : area.typ \in {"Available", "AcpiAvailable"})

RECURSIVE RegisterAreas(_, _, _, _)
\* register_memory_region(intersect(memory_region, area)) for the k-th area on.
RegisterAreas(x, areas, memory_region, k) ==
    IF k > Len(areas) THEN x
    ELSE RegisterAreas(register_memory_region(x.alloc, x.mem,
                                              intersect(memory_region, areas[k]).start,
                                              intersect(memory_region, areas[k]).end),
                       areas, memory_region, k + 1)

register_available_memory_areas_from_region(x, memory_map, memory_region) ==
    RegisterAreas(x, available_memory_areas(memory_map), memory_region, 1)

\* GetFrameResponse, and the allocator and memory the call leaves.
GetFrameResponse(frame, last_frame_added_to_allocator, a, m) ==
    [frame |-> frame, last_frame_added_to_allocator |-> last_frame_added_to_allocator,
     x |-> [alloc |-> a, mem |-> m]]

\* frame: self.get_4k_frame() after the refill
RefilledFrame(g, memory_state) ==
    GetFrameResponse(g.ret, memory_state.virtual_memory_size, g.alloc, g.mem)

\* A bug: the refill reports the frame after the mapped size as added.
Refilled_past_mapped_size(x, memory_state) ==
    [RefilledFrame(get_4k_frame(x.alloc, x.mem), memory_state)
        EXCEPT !.last_frame_added_to_allocator = @ + FOUR_KILOBYTES]

Refilled(x, memory_state) == RefilledFrame(get_4k_frame(x.alloc, x.mem), memory_state)

FrameOrRefill(x, r, memory_map, memory_state) ==
    IF r.ret # NoFrame
    THEN GetFrameResponse(r.ret, memory_state.last_frame_added_to_allocator,
                          [x.alloc EXCEPT !.four_kilobyte_pages = r.fa], x.mem)
    ELSE Refilled(register_available_memory_areas_from_region(
                      x, memory_map,
                      range(memory_state.last_frame_added_to_allocator,
                            memory_state.virtual_memory_size)),
                  memory_state)

get_frame_for_page_table(x, memory_map, memory_state) ==
    FrameOrRefill(x, get_frame(x.alloc.four_kilobyte_pages, x.mem), memory_map, memory_state)

\* populate_as_l1_kernel_page_table: the memory it leaves; it returns
\* virtual_memory_size + TableEntries * kernel_page_size.
populate_as_l1_kernel_page_table(m, page_table, page_bytes, virtual_memory_size) ==
    [c \in DOMAIN m \cup {<<page_table, i>> : i \in 0..(TableEntries - 1)} |->
        IF c[1] = page_table
        THEN Entry(virtual_memory_size + c[2] * page_bytes, kernel_page_flags)
        ELSE m[c]]

\* IdentityMapEntryResult, and the allocator and memory the call leaves.
IdentityMapEntryResult(x, memory_state, finished) ==
    [x |-> x, memory_state |-> memory_state, finished |-> finished]

RECURSIVE identity_map(_, _, _, _, _, _)
RECURSIVE identity_map_entries(_, _)

\* identity_map_entry after get_frame_for_page_table.  The call of identity_map
\* gives physical_memory_size where identity_map takes
\* remaining_page_table_levels, and remaining_page_table_levels where it takes
\* physical_memory_size.
EntryWithFrame(response, page_table, index, memory_map, memory_state, remaining_page_table_levels, physical_memory_size) ==
    IF response.frame = NoFrame
    THEN IdentityMapEntryResult(
             response.x,
             MemoryState(memory_state.virtual_memory_size,
                         response.last_frame_added_to_allocator),
             TRUE)
    ELSE [identity_map([response.x EXCEPT
                          !.mem = Store(@, page_table, index,
                                        Entry(response.frame, kernel_page_table_flags))],
                       response.frame, memory_map,
                       MemoryState(memory_state.virtual_memory_size,
                                   response.last_frame_added_to_allocator),
                       physical_memory_size, remaining_page_table_levels)
             EXCEPT !.finished = FALSE]

\* The entry is the entry `index` of `page_table`.
identity_map_entry(x, page_table, index, memory_map, memory_state, remaining_page_table_levels, physical_memory_size) ==
    IF memory_state.virtual_memory_size >= physical_memory_size
    THEN IdentityMapEntryResult(x, memory_state, TRUE)
    ELSE EntryWithFrame(get_frame_for_page_table(x, memory_map, memory_state),
                        page_table, index, memory_map, memory_state,
                        remaining_page_table_levels, physical_memory_size)

\* finished = identity_map_result.finished; new_memory_state = ...memory_state
EntriesAfter(loop, result, memory_map) ==
    identity_map_entries([loop EXCEPT !.x = result.x, !.finished = result.finished,
                                      !.new_memory_state = result.memory_state,
                                      !.index = @ + 1],
                         memory_map)

\* The loop over the entries of identity_map, from the entry `loop.index` on.
identity_map_entries(loop, memory_map) ==
    IF loop.index > TableEntries - 1
    THEN IdentityMapEntryResult(loop.x, loop.new_memory_state, loop.finished)
    ELSE IF loop.finished
    THEN identity_map_entries(
             [loop EXCEPT !.x.mem = Store(@, loop.page_table, loop.index, Unused),
                          !.index = @ + 1],
             memory_map)
    ELSE EntriesAfter(loop,
                      identity_map_entry(loop.x, loop.page_table, loop.index, memory_map,
                                         loop.memory_state,
                                         loop.remaining_page_table_levels - 1,
                                         loop.physical_memory_size),
                      memory_map)

\* The variables of the loop over the entries of a table.
EntriesLoop(x, page_table, memory_state, remaining_page_table_levels, physical_memory_size, first) ==
    [x |-> x, page_table |-> page_table, memory_state |-> memory_state,
     remaining_page_table_levels |-> remaining_page_table_levels,
     physical_memory_size |-> physical_memory_size, index |-> first,
     finished |-> FALSE, new_memory_state |-> memory_state]

\* identity_map returns the MemoryState; the result carries the allocator and
\* memory too (and a `finished` the caller sets).
identity_map(x, page_table, memory_map, memory_state, remaining_page_table_levels, physical_memory_size) ==
    IF remaining_page_table_levels = 0
    THEN IdentityMapEntryResult(
             [x EXCEPT !.mem = populate_as_l1_kernel_page_table(
                                   @, page_table, kernel_page_size(x.alloc),
                                   memory_state.virtual_memory_size)],
             MemoryState(memory_state.virtual_memory_size
                             + TableEntries * kernel_page_size(x.alloc),
                         memory_state.last_frame_added_to_allocator),
             FALSE)
    ELSE identity_map_entries(
             EntriesLoop(x, page_table, memory_state, remaining_page_table_levels,
                         physical_memory_size, 0),
             memory_map)

include_remnants_of_partially_used_pages(memory_region) ==
    range(memory_region.start - (memory_region.start % FOUR_KILOBYTES), memory_region.end)

\* micros_kernel_amd64's set_last_entry writes the entry 0x1fe.
amd64_set_last_entry(m, page_table, address, flags) ==
    set_entry(m, page_table, LastEntry - 1, address, flags)

\* The entries of the four 4 KiB pages of the stack: 0x1fe, 0x1fd, 0x1fc, 0x1fb.
Amd64StackEntries == <<LastEntry - 1, LastEntry - 2, LastEntry - 3, LastEntry - 4>>

\* micros_kernel_amd64's initialize_memory_manager_page_tables; as above, each
\* operator is the part of the function after one `get_4k_frame()?`.
RECURSIVE Amd64StackPage(_, _, _, _)
Amd64StackPage(taken, root_table, p1_table, k) ==
    IF taken.ret = NoFrame THEN Failed(taken.st)
    ELSE IF k < Len(Amd64StackEntries)
    THEN Amd64StackPage(
             Take4k([taken.st EXCEPT
                       !.mem = set_entry(@, p1_table, Amd64StackEntries[k], taken.ret,
                                         kernel_page_table_flags)]),
             root_table, p1_table, k + 1)
    ELSE [st |-> [taken.st EXCEPT
                    !.mem = set_entry(@, p1_table, Amd64StackEntries[k], taken.ret,
                                      kernel_page_table_flags)],
          root |-> root_table]

Amd64StackTable(taken, root_table, p2_table) ==
    IF taken.ret = NoFrame THEN Failed(taken.st)
    ELSE Amd64StackPage(
             Take4k([taken.st EXCEPT
                       !.mem = amd64_set_last_entry(@, p2_table, taken.ret,
                                                    kernel_page_table_flags)]),
             root_table, taken.ret, 1)

Amd64Stack(st, huge_stack, root_table, p2_table) ==
    IF huge_stack.ret # NoFrame
    THEN [st |-> [st EXCEPT
                    !.alloc = huge_stack.alloc,
                    !.mem = amd64_set_last_entry(huge_stack.mem, p2_table, huge_stack.ret,
                                                 kernel_page_flags),
                    !.got = @ \cup (huge_stack.ret..(huge_stack.ret + TWO_MEGABYTES - 1))],
          root |-> root_table]
    ELSE Amd64StackTable(
             Take4k([st EXCEPT !.alloc = huge_stack.alloc, !.mem = huge_stack.mem]),
             root_table, p2_table)

Amd64StackIn(st, root_table, p2_table) ==
    Amd64Stack(st, get_2mb_frame(st.alloc, st.mem), root_table, p2_table)

Amd64Level2(taken, root_table, p3_table_addr) ==
    IF taken.ret = NoFrame THEN Failed(taken.st)
    ELSE Amd64StackIn([taken.st EXCEPT
                         !.mem = amd64_set_last_entry(@, p3_table_addr, taken.ret,
                                                      kernel_page_table_flags)],
                      root_table, taken.ret)

Amd64Level3(taken, root_table) ==
    IF taken.ret = NoFrame THEN Failed(taken.st)
    ELSE Amd64Level2(Take4k([taken.st EXCEPT
                               !.mem = amd64_set_last_entry(@, root_table, taken.ret,
                                                            kernel_page_table_flags)]),
                     root_table, taken.ret)

\* root_table[0] = p4_table[0].clone()
Amd64Root(taken) ==
    IF taken.ret = NoFrame THEN Failed(taken.st)
    ELSE Amd64Level3(Take4k([taken.st EXCEPT
                               !.mem = Store(@, taken.ret, 0, Load(@, p4_table, 0))]),
                     taken.ret)

amd64_initialize_memory_manager_page_tables(st) == Amd64Root(Take4k(st))

\* ------------------------------------------------------------- SpecBoot
\* micros_kernel_common's boot_os, from the state run_operating_system enters
\* it in, with the kernel image, the boot information and the memory manager's
\* module as three separate objects of memory and a memory map whose areas do
\* not overlap.

\* header_start..kernel_end: the image holds the kernel's tables and ends
\* inside a page.
KernelEnd == p2_tables(InitialGigabytes - 1) + FOUR_KILOBYTES + 1

\* The boot information: starting inside a page, or on a page, or right where
\* the kernel image ends, inside the image's last page.
BootInfoRanges ==
    {range(ModuleStart - 3 * FOUR_KILOBYTES + 1, ModuleStart - 2 * FOUR_KILOBYTES + 1),
     range(ModuleStart - 2 * FOUR_KILOBYTES, ModuleStart - FOUR_KILOBYTES + 1),
     range(KernelEnd, KernelEnd + FOUR_KILOBYTES)}

\* The memory manager's module: a valid image without segments and one with a
\* segment, one whose header is not valid, one whose segment lies past the end
\* of the file.
BootModules ==
    {[len |-> DataStart(0), header |-> ValidHeader(0), segments |-> << >>],
     [len |-> DataStart(1) + 1, header |-> ValidHeader(1),
      segments |-> <<ProgramHeader(ELF_LOADABLE_SEGMENT, 4, DataStart(1), 0, 1, 1)>>],
     [len |-> DataStart(0), header |-> [ValidHeader(0) EXCEPT !.ident_magic = 0],
      segments |-> << >>],
     [len |-> DataStart(1), header |-> ValidHeader(1),
      segments |-> <<ProgramHeader(ELF_LOADABLE_SEGMENT, 4, DataStart(1), 0, 1, 1)>>]}

\* Where physical memory ends: below 4 GiB, and above.
MemoryEnds ==
    {INITIAL_VIRTUAL_MEMORY_SIZE - GIGABYTE + 1, INITIAL_VIRTUAL_MEMORY_SIZE + GIGABYTE + 1}

\* The memory maps: one area; a hole after the first page; a third available
\* area that the first pass leaves out; little memory below 4 GiB.
MemoryMaps ==
    {<<MemoryArea(0, e, "Available")>> : e \in MemoryEnds}
        \cup {<<MemoryArea(0, FOUR_KILOBYTES + 1, "Available"),
                MemoryArea(FOUR_KILOBYTES + 1, 3 * FOUR_KILOBYTES, "Reserved"),
                MemoryArea(3 * FOUR_KILOBYTES, e, "AcpiAvailable")>> : e \in MemoryEnds}
        \cup {<<MemoryArea(0, FOUR_KILOBYTES + 1, "Available"),
                MemoryArea(FOUR_KILOBYTES + 1, GIGABYTE + 1, "AcpiAvailable"),
                MemoryArea(GIGABYTE + TWO_MEGABYTES,
                           INITIAL_VIRTUAL_MEMORY_SIZE + GIGABYTE + 1, "Available")>>}
        \cup {<<MemoryArea(0, TWO_MEGABYTES + FOUR_KILOBYTES + 1, "Available"),
                MemoryArea(INITIAL_VIRTUAL_MEMORY_SIZE - 3 * FOUR_KILOBYTES,
                           INITIAL_VIRTUAL_MEMORY_SIZE + GIGABYTE + 1, "Available")>>}

\* The largest element of a set of numbers, 0 for the empty set.
MaxOf(S) == IF S = {} THEN 0 ELSE CHOOSE e \in S : \A f \in S : f <= e

\* Iterator::take
Take(seq, n) == SubSeq(seq, 1, Min(n, Len(seq)))

RECURSIVE RegionsOfAreas(_, _, _)
\* The memory regions the first pass registers, in its order: for the k-th
\* area on, the unused regions of the area.
RegionsOfAreas(areas, regions, k) ==
    IF k > Len(areas) THEN << >>
    ELSE unused_memory_regions_from_area(areas[k], regions)
             \o RegionsOfAreas(areas, regions, k + 1)

\* A bug: the loop starts at the first entry of the table.
skip_nothing(offset) == 0

\* page_table.iter().skip(offset): the index of the first entry the loop of
\* identity_map_with_offset visits.
skip(offset) == offset

\* A call of identity_map_with_offset that has not returned.
MapCall(page_table, memory_state, page_table_offsets) ==
    [page_table |-> page_table, memory_state |-> memory_state,
     page_table_offsets |-> page_table_offsets, stage |-> "enter",
     index |-> 0, finished |-> FALSE, new_memory_state |-> memory_state]

\* The tag types of the multiboot2 boot information: the boot module, and the
\* memory map.
BOOT_MODULE_TAG_TYPE == 3
MEMORY_MAP_TAG_TYPE == 6

\* The boot informations by their tags and memory map: all carry the tag of
\* the memory manager's module, and one carries no memory-map tag.
BootInformations ==
    {[tags |-> {BOOT_MODULE_TAG_TYPE, MEMORY_MAP_TAG_TYPE}, memory_map |-> memory_map] :
        memory_map \in MemoryMaps}
        \cup {[tags |-> {BOOT_MODULE_TAG_TYPE}, memory_map |-> << >>]}

\* A lookup that takes the tag of the boot module for the memory map.
memory_map_tag_by_module(tags) == BOOT_MODULE_TAG_TYPE \in tags

\* boot_info.memory_map_tag() is Some: the boot information has a tag of the
\* type of the memory map.
memory_map_tag(tags) == MEMORY_MAP_TAG_TYPE \in tags

BootInit ==
    /\ pc = "boot_os"
    /\ call = NoCall
    /\ bytes = << >>
    /\ ledger = EmptyLedger
    /\ \E gigabyte_pages \in BOOLEAN, info \in BootInformations,
          boot_info \in BootInfoRanges, module \in BootModules :
          /\ allocator = AllocatorAtEntry(gigabyte_pages).alloc
          /\ mem = AllocatorAtEntry(gigabyte_pages).mem
          /\ boot = [gigabyte_pages |-> gigabyte_pages, tags |-> info.tags,
                     memory_map |-> info.memory_map,
                     in_use |-> <<range(KernelStart, KernelEnd), boot_info,
                                  range(ModuleStart, ModuleStart + module.len)>>,
                     boot_info |-> boot_info, module |-> module,
                     pending |-> << >>, physical_memory_size |-> 0,
                     memory_state |-> MemoryState(INITIAL_VIRTUAL_MEMORY_SIZE,
                                                  INITIAL_VIRTUAL_MEMORY_SIZE),
                     calls |-> << >>, root |-> NoFrame]

\* boot_os: boot_info.memory_map_tag().ok_or(Error::NoMemoryMap)? on a boot
\* information without the tag.
BootNoMemoryMap ==
    /\ pc = "boot_os"
    /\ ~memory_map_tag(boot.tags)
    /\ pc' = "err"
    /\ call' = [op |-> "memory_map_tag"]
    /\ UNCHANGED <<allocator, mem, bytes, boot, ledger>>

\* boot_os: the unused regions below 4 GiB; the memory regions the loop over
\* the first two available areas registers, and physical_memory_size.
BootUnusedMemoryRegions ==
    /\ pc = "boot_os"
    /\ memory_map_tag(boot.tags)
    /\ \E sorted \in sort_unstable_by_start(boot.in_use) :
          boot' = [boot EXCEPT
                     !.in_use = sorted,
                     !.pending = RegionsOfAreas(
                                     Take(available_memory_areas(boot.memory_map), 2),
                                     unused_memory_regions(sorted,
                                                           INITIAL_VIRTUAL_MEMORY_SIZE),
                                     1),
                     !.physical_memory_size =
                         MaxOf({area.end : area \in
                                   Range(Take(available_memory_areas(boot.memory_map), 2))})]
    /\ pc' = "register"
    /\ call' = [op |-> "unused_memory_regions"]
    /\ UNCHANGED <<allocator, mem, bytes, ledger>>

\* boot_os: proc.register_memory_region(memory_region), one turn of the loop.
BootRegisterMemoryRegion ==
    /\ pc = "register"
    /\ boot.pending # << >>
    /\ allocator' = register_memory_region(allocator, mem, Head(boot.pending).start,
                                           Head(boot.pending).end).alloc
    /\ mem' = register_memory_region(allocator, mem, Head(boot.pending).start,
                                     Head(boot.pending).end).mem
    /\ boot' = [boot EXCEPT !.pending = Tail(@)]
    /\ call' = [op |-> "register_memory_region", start |-> Head(boot.pending).start,
                end |-> Head(boot.pending).end]
    /\ UNCHANGED <<bytes, pc, ledger>>

\* boot_os: the memory manager's root table, or
\* Err(FailedToSetupMemoryManagerAddressSpace).
BootInitializeTables ==
    /\ pc = "register"
    /\ boot.pending = << >>
    /\ LET r == amd64_initialize_memory_manager_page_tables(Machine(allocator, mem, bytes))
       IN /\ MachineStep(r.st)
          /\ boot' = [boot EXCEPT !.root = r.root]
          /\ call' = [op |-> "initialize_memory_manager_page_tables", ret |-> r.root]
          /\ ledger' = [ledger EXCEPT !.popped = @ \cup r.st.got]
          /\ pc' = IF r.root = NoFrame THEN "err" ELSE "module"

\* boot_os: Err(InvalidMemoryManagerModule) for a header that is not valid or a
\* LOAD segment that ends past the file.
BootCheckModule ==
    /\ pc = "module"
    /\ pc' = IF /\ is_valid(boot.module.header, boot.module.len)
                /\ \A i \in 1..Len(boot.module.segments) :
                      boot.module.segments[i].segment_type = ELF_LOADABLE_SEGMENT
                          => wrapping_add(boot.module.segments[i].offset,
                                          boot.module.segments[i].file_size)
                                 <= boot.module.len
             THEN "identity_map"
             ELSE "err"
    /\ call' = [op |-> "is_valid"]
    /\ UNCHANGED <<allocator, mem, bytes, boot, ledger>>

\* boot_os calls identity_map_with_offset on the root table.
BootIdentityMap ==
    /\ pc = "identity_map"
    /\ boot' = [boot EXCEPT
                  !.calls = <<MapCall(p4_table,
                                      MemoryState(INITIAL_VIRTUAL_MEMORY_SIZE,
                                                  INITIAL_VIRTUAL_MEMORY_SIZE),
                                      initial_page_table_counts(allocator))>>]
    /\ pc' = "mapping"
    /\ call' = [op |-> "identity_map_with_offset"]
    /\ UNCHANGED <<allocator, mem, bytes, ledger>>

\* identity_map_with_offset up to its loop: a table of the last level is
\* populated; else the call recurses into the last populated entry when the
\* offsets name one, and the loop starts at the entry `offset`.
BootMapEnter ==
    /\ pc = "mapping"
    /\ Head(boot.calls).stage = "enter"
    /\ LET this == Head(boot.calls)
           offsets == this.page_table_offsets
       IN IF offsets = << >>
          THEN /\ mem' = populate_as_l1_kernel_page_table(
                             mem, this.page_table, kernel_page_size(allocator),
                             this.memory_state.virtual_memory_size)
               /\ boot' = [boot EXCEPT
                             !.calls[1].stage = "loop",
                             !.calls[1].index = TableEntries,
                             !.calls[1].new_memory_state =
                                 MemoryState(this.memory_state.virtual_memory_size
                                                 + TableEntries * kernel_page_size(allocator),
                                             this.memory_state.last_frame_added_to_allocator)]
          ELSE IF offsets[1] # 0 /\ Tail(offsets) # << >>
          THEN /\ mem' = mem
               /\ boot' = [boot EXCEPT
                             !.calls = <<MapCall(Load(mem, this.page_table,
                                                      offsets[1] - 1).addr,
                                                 this.memory_state, Tail(offsets))>>
                                           \o <<[this EXCEPT !.stage = "recursed"]>>
                                           \o Tail(@)]
          ELSE /\ mem' = mem
               /\ boot' = [boot EXCEPT !.calls[1].stage = "loop",
                                       !.calls[1].index = skip(offsets[1])]
    /\ call' = [op |-> "identity_map_with_offset", stage |-> "enter"]
    /\ UNCHANGED <<allocator, bytes, pc, ledger>>

\* identity_map_with_offset: one turn of the loop over the entries.  Every
\* turn gives identity_map_entry the memory_state the call was given.
BootMapEntry ==
    /\ pc = "mapping"
    /\ Head(boot.calls).stage = "loop"
    /\ Head(boot.calls).index <= TableEntries - 1
    /\ LET this == Head(boot.calls)
           result == identity_map_entry(
                         [alloc |-> allocator, mem |-> mem], this.page_table, this.index,
                         boot.memory_map, this.memory_state,
                         Len(this.page_table_offsets) - 1, boot.physical_memory_size)
       IN IF this.finished
          THEN /\ mem' = Store(mem, this.page_table, this.index, Unused)
               /\ allocator' = allocator
               /\ boot' = [boot EXCEPT !.calls[1].index = @ + 1]
               /\ call' = [op |-> "mark_unused", page_table |-> this.page_table,
                           index |-> this.index]
          ELSE /\ mem' = result.x.mem
               /\ allocator' = result.x.alloc
               /\ boot' = [boot EXCEPT !.calls[1].index = @ + 1,
                                       !.calls[1].finished = result.finished,
                                       !.calls[1].new_memory_state = result.memory_state]
               /\ call' = [op |-> "identity_map_entry", page_table |-> this.page_table,
                           index |-> this.index, finished |-> result.finished,
                           refilled |->
                               /\ this.memory_state.virtual_memory_size
                                      < boot.physical_memory_size
                               /\ allocator.four_kilobyte_pages = NoFrame]
    /\ UNCHANGED <<bytes, pc, ledger>>

\* identity_map_with_offset returns new_memory_state: to the call that
\* recursed, which starts its loop, or to boot_os.
BootMapReturn ==
    /\ pc = "mapping"
    /\ Head(boot.calls).stage = "loop"
    /\ Head(boot.calls).index > TableEntries - 1
    /\ IF Tail(boot.calls) # << >>
       THEN /\ boot' = [boot EXCEPT
                          !.calls = <<[boot.calls[2] EXCEPT
                                         !.stage = "loop",
                                         !.index = skip(boot.calls[2].page_table_offsets[1]),
                                         !.new_memory_state =
                                             Head(boot.calls).new_memory_state]>>
                                        \o Tail(Tail(@))]
            /\ pc' = pc
       ELSE /\ boot' = [boot EXCEPT !.calls = << >>,
                                    !.memory_state = Head(boot.calls).new_memory_state]
            /\ pc' = "register_remaining"
    /\ call' = [op |-> "identity_map_with_offset", stage |-> "return"]
    /\ UNCHANGED <<allocator, mem, bytes, ledger>>

\* boot_os: the memory between last_frame_added_to_allocator and
\* virtual_memory_size goes to the allocator.
BootRegisterRemaining ==
    /\ pc = "register_remaining"
    /\ LET x == register_available_memory_areas_from_region(
                    [alloc |-> allocator, mem |-> mem], boot.memory_map,
                    range(boot.memory_state.last_frame_added_to_allocator,
                          boot.memory_state.virtual_memory_size))
       IN /\ allocator' = x.alloc
          /\ mem' = x.mem
    /\ pc' = "reclaim"
    /\ call' = [op |-> "register_available_memory_areas_from_region"]
    /\ UNCHANGED <<bytes, boot, ledger>>

\* boot_os: the memory of the boot information goes to the allocator; Ok(()).
BootReclaimBootInfo ==
    /\ pc = "reclaim"
    /\ LET region == include_remnants_of_partially_used_pages(boot.boot_info)
           x == register_memory_region(allocator, mem, region.start, region.end)
       IN /\ allocator' = x.alloc
          /\ mem' = x.mem
          /\ call' = [op |-> "include_remnants_of_partially_used_pages",
                      start |-> region.start, end |-> region.end]
    /\ pc' = "ok"
    /\ UNCHANGED <<bytes, boot, ledger>>

\* main: the message for Ok or Err, then halt().
BootHalt ==
    /\ pc \in {"ok", "err"}
    /\ pc' = "halted"
    /\ call' = [op |-> "halt", result |-> pc]
    /\ UNCHANGED <<allocator, mem, bytes, boot, ledger>>

BootNext ==
    \/ BootNoMemoryMap
    \/ BootUnusedMemoryRegions
    \/ BootRegisterMemoryRegion
    \/ BootInitializeTables
    \/ BootCheckModule
    \/ BootIdentityMap
    \/ BootMapEnter
    \/ BootMapEntry
    \/ BootMapReturn
    \/ BootRegisterRemaining
    \/ BootReclaimBootInfo
    \/ BootHalt

SpecBoot == BootInit /\ [][BootNext]_vars

\* ------------------------------------------------------------- claims on one push

FreeOf(t) ==
    CASE t = "four_kilobyte_pages" -> Free4k
      [] t = "two_megabyte_pages" -> Free2m
      [] t = "gigabyte_pages" -> FreeGb

\* C8: after add_aligned_frames_with_scrap_allocator on [a, b) with tier size F
\* and smaller size Fs, the F-aligned middle [p, q) is on this tier as F frames,
\* the head [a, p) and the tail [q, b) are on the smaller tier as Fs frames, and
\* every Fs-aligned frame wholly inside [a, b) is covered exactly once.
C8_ScrapCoversEveryFrameOnce ==
    call.op = "add_aligned_frames_with_scrap_allocator" =>
        LET F == FrameSize(call.tier)
            Fs == FrameSize(call.smaller)
            a == call.start
            b == call.end
            p == CeilTo(a, F)
            q == FloorTo(b, F)
            big == FreeOf(call.tier)
            small == FreeOf(call.smaller)
        IN /\ NoDuplicates(big)
           /\ NoDuplicates(small)
           /\ IF q > p
              THEN /\ Range(big) = AlignedFramesIn(p, q, F)
                   /\ Range(small) = AlignedFramesIn(a, p, Fs) \cup AlignedFramesIn(q, b, Fs)
              ELSE /\ Range(big) = {}
                   /\ Range(small) = AlignedFramesIn(a, b, Fs)
           /\ \A f \in AlignedFramesIn(a, b, Fs) :
                 (f \in Range(small)) # (FloorTo(f, F) \in Range(big))
           /\ \A t \in Tiers \ {call.tier, call.smaller} : Len(FreeOf(t)) = 0

\* The spec's example, scaled and with an unaligned end:
\* [2 MiB - 4 KiB, 2 * 2 MiB + 4 KiB + 1) gives one 2 MiB frame, one 4 KiB head
\* frame and one 4 KiB tail frame; the odd last byte is on no list.
C8_Witness ==
    /\ call.op = "add_aligned_frames_with_scrap_allocator"
    /\ call.tier = "two_megabyte_pages"
    /\ call.start = TWO_MEGABYTES - FOUR_KILOBYTES
    /\ call.end = 2 * TWO_MEGABYTES + FOUR_KILOBYTES + 1
    /\ Free2m = <<TWO_MEGABYTES>>
    /\ Range(Free4k) = {TWO_MEGABYTES - FOUR_KILOBYTES, 2 * TWO_MEGABYTES}

\* C9: register_memory_region with the 1 GiB tier present hands every 4 KiB-aligned
\* frame inside the region to exactly one tier (head, 1 GiB middle and tail).
C9_RegisterKeepsWholeRegion ==
    (call.op = "register_memory_region" /\ allocator.gigabyte_pages # Absent) =>
        /\ FreeBytes = BytesOf(AlignedFramesIn(call.start, call.end, FOUR_KILOBYTES),
                               FOUR_KILOBYTES)
        /\ Cardinality(FreeBytes) =
               Len(Free4k) * FOUR_KILOBYTES + Len(Free2m) * TWO_MEGABYTES
                   + Len(FreeGb) * GIGABYTE

\* ------------------------------------------------------------- claims on loading

\* load_memory_manager returned Some: on its way to the hand-off or past it.
LoadSucceeded == pc \in {"some", "launched"}

\* The LOAD segments of the module.
LoadSegments ==
    {s \in Range(boot.module.segments) : s.segment_type = ELF_LOADABLE_SEGMENT}

\* The byte the loaded image holds at the i-th byte of a segment.
ImageByte(s, i) == IF i < s.file_size THEN FileByte(s.offset + i) ELSE 0

\* C3: after load_memory_manager succeeds, reading memory_size bytes at each
\* LOAD segment's virtual address through the new address space yields the
\* segment's file_size file bytes followed by memory_size - file_size zero
\* bytes, whatever the alignment and the pages and tables the segment spans.
C3_LoadedImageReadsBack ==
    LoadSucceeded =>
        \A s \in LoadSegments : \A i \in 0..(s.memory_size - 1) :
            ReadByte(mem, bytes, boot.root, s.virtual_address + i) = ImageByte(s, i)

\* C6: a copy_into_address_space that returned None (the allocator had no
\* frame) is never followed by the hand-off: boot_os returns None instead.
C6_FailedCopyNeverLaunches ==
    LoadSucceeded => \A i \in 1..Len(ledger.copies) : ledger.copies[i]

\* C7: building the address space and loading the segments leaves every word of
\* the tables reachable through the kernel's level-4 entry 0 as it was, and
\* writes bytes only into frames taken from the allocator.
C7_KernelTablesUntouched ==
    /\ \A frame \in KernelTableFrames(boot.gigabyte_pages) :
          \A i \in 0..(TableEntries - 1) :
              Load(mem, frame, i) = Load(KernelTables(boot.gigabyte_pages), frame, i)
    /\ DOMAIN bytes \subseteq ledger.popped

\* ------------------------------------------------------------- claims on the bootstrap

\* C2: in every state of the bootstrap (the first registration of memory, the
\* splits of get_4k_frame and get_2mb_frame, the refills of
\* get_frame_for_page_table, the registration after the mapping and of the boot
\* information) no byte belongs to two free frames: no list holds a frame
\* twice and the frames of all the lists are disjoint.
C2_NoByteInTwoFreeFrames ==
    /\ NoDuplicates(Free4k)
    /\ NoDuplicates(Free2m)
    /\ NoDuplicates(FreeGb)
    /\ BytesOf(Range(Free4k), FOUR_KILOBYTES) \cap BytesOf(Range(Free2m), TWO_MEGABYTES) = {}
    /\ BytesOf(Range(Free4k), FOUR_KILOBYTES) \cap BytesOf(Range(FreeGb), GIGABYTE) = {}
    /\ BytesOf(Range(Free2m), TWO_MEGABYTES) \cap BytesOf(Range(FreeGb), GIGABYTE) = {}
    /\ \A t \in {<<Free4k, FOUR_KILOBYTES>>, <<Free2m, TWO_MEGABYTES>>, <<FreeGb, GIGABYTE>>} :
          \A i, j \in 1..Len(t[1]) :
              i # j => (t[1][i] + t[2] <= t[1][j] \/ t[1][j] + t[2] <= t[1][i])

\* The mapper found the 4 KiB list empty, refilled, and took a frame that a
\* split of a larger frame gave; frames of every tier are free.
C2_Witness ==
    /\ pc = "mapping"
    /\ call.op = "identity_map_entry"
    /\ call.refilled
    /\ ~call.finished
    /\ Len(Free4k) > 0
    /\ Len(Free2m) > 0
    /\ Len(FreeGb) > 0

\* identity_map_with_offset has returned to boot_os.
Mapped == pc \in {"register_remaining", "reclaim", "ok"}

\* C4: after identity_map_with_offset returns, every physical address below
\* min(physical_memory_size, the virtual_memory_size returned) is reached
\* through the active root table at the same virtual address.
C4_IdentityBelowMappedSize ==
    Mapped =>
        \A address \in 0..(Min(boot.physical_memory_size,
                               boot.memory_state.virtual_memory_size) - 1) :
            Translate(mem, p4_table, address) = address

\* Memory ends past 4 GiB and the mapper has given the root table a new entry.
C4_Witness ==
    /\ pc = "ok"
    /\ boot.physical_memory_size > INITIAL_VIRTUAL_MEMORY_SIZE
    /\ PRESENT \in Load(mem, p4_table, 1).flags

\* ------------------------------------------------------------- SpecLifo
\* Any interleaving of add_frame and get_frame on one FrameAllocator<F>.  A
\* frame is added only while it is not on the list (the safety contract of
\* add_frame); a frame that was returned may be added again.

MaxLifoFrames == 3
MaxLifoOps == 5

\* The frames the caller owns: the first MaxLifoFrames frames of the tier.
LifoFrames(t) == {k * FrameSize(t) : k \in 0..(MaxLifoFrames - 1)}

\* boot.stack is the history: the frames added and not yet returned, in the
\* order of their add_frame; boot.top is its last element at the latest
\* get_frame (NoFrame when there was none).
LifoInit ==
    /\ allocator = EmptyAllocator(NoFrame)
    /\ mem = << >>
    /\ bytes = << >>
    /\ \E t \in Tiers : boot = [stage |-> "lifo", tier |-> t, stack |-> << >>,
                                top |-> NoFrame]
    /\ pc = "lifo"
    /\ call = NoCall
    /\ ledger = EmptyLedger

LifoAddFrame ==
    /\ pc = "lifo"
    /\ ledger.ops < MaxLifoOps
    /\ \E frame \in LifoFrames(boot.tier) :
          /\ \A i \in 1..Len(boot.stack) : boot.stack[i] # frame
          /\ LET r == add_frame(allocator[boot.tier], mem, frame)
             IN /\ allocator' = [allocator EXCEPT ![boot.tier] = r.fa]
                /\ mem' = r.mem
          /\ call' = [op |-> "add_frame", tier |-> boot.tier, start |-> frame,
                      end |-> frame + FrameSize(boot.tier)]
          /\ boot' = [boot EXCEPT !.stack = Append(@, frame)]
    /\ ledger' = [ledger EXCEPT !.ops = @ + 1]
    /\ UNCHANGED <<bytes, pc>>

LifoGetFrame ==
    /\ pc = "lifo"
    /\ ledger.ops < MaxLifoOps
    /\ LET r == get_frame(allocator[boot.tier], mem)
       IN /\ allocator' = [allocator EXCEPT ![boot.tier] = r.fa]
          /\ mem' = r.mem
          /\ call' = [op |-> "get_frame", tier |-> boot.tier, ret |-> r.ret]
          /\ boot' = [boot EXCEPT
                        !.top = IF Len(boot.stack) = 0 THEN NoFrame
                                ELSE boot.stack[Len(boot.stack)],
                        !.stack = SelectSeq(@, LAMBDA f : f # r.ret)]
          /\ ledger' = [ledger EXCEPT !.ops = @ + 1,
                                      !.returned = IF r.ret = NoFrame THEN @
                                                   ELSE Append(@, r.ret)]
    /\ UNCHANGED <<bytes, pc>>

LifoNext == LifoAddFrame \/ LifoGetFrame

SpecLifo == LifoInit /\ [][LifoNext]_vars

\* ------------------------------------------------------------- claims on one tier

\* C11: within one tier the free list is strictly LIFO: for any interleaving
\* of add_frame and get_frame, get_frame returns the frame most recently added
\* to the tier that has not been returned yet (and nothing when there is none).
C11_GetFrameReturnsLastAdded ==
    (pc = "lifo" /\ call.op = "get_frame") => call.ret = boot.top

\* A get_frame that follows an add_frame of a frame returned before, with an
\* older frame still on the list.
C11_Witness ==
    /\ pc = "lifo"
    /\ call.op = "get_frame"
    /\ call.ret # NoFrame
    /\ Len(ledger.returned) >= 2
    /\ ledger.returned[Len(ledger.returned)] = ledger.returned[1]
    /\ Len(boot.stack) >= 1

\* ------------------------------------------------------------- claims on page protections

\* What the processor grants at a virtual address: an access needs PRESENT
\* at every level; user mode needs USER_ACCESSIBLE at every level, a write
\* needs WRITABLE at every level, and NO_EXECUTE at any level forbids fetching.
NoAccess == [present |-> FALSE, user |-> FALSE, writable |-> FALSE, no_execute |-> FALSE]

RECURSIVE Access(_, _, _, _, _)
Access(m, page_table, page_table_level, address, above) ==
    IF PRESENT \notin Load(m, page_table, page_table_entry(page_table_level, address)).flags
    THEN NoAccess
    ELSE IF page_table_level = 0
            \/ HUGE_PAGE \in Load(m, page_table,
                                  page_table_entry(page_table_level, address)).flags
    THEN [present |-> TRUE,
          user |-> above.user /\ USER_ACCESSIBLE \in
                      Load(m, page_table, page_table_entry(page_table_level, address)).flags,
          writable |-> above.writable /\ WRITABLE \in
                      Load(m, page_table, page_table_entry(page_table_level, address)).flags,
          no_execute |-> above.no_execute \/ NO_EXECUTE \in
                      Load(m, page_table, page_table_entry(page_table_level, address)).flags]
    ELSE Access(m, Load(m, page_table, page_table_entry(page_table_level, address)).addr,
                page_table_level - 1, address,
                [user |-> above.user /\ USER_ACCESSIBLE \in
                      Load(m, page_table, page_table_entry(page_table_level, address)).flags,
                 writable |-> above.writable /\ WRITABLE \in
                      Load(m, page_table, page_table_entry(page_table_level, address)).flags,
                 no_execute |-> above.no_execute \/ NO_EXECUTE \in
                      Load(m, page_table, page_table_entry(page_table_level, address)).flags])

PageAccess(m, root, address) ==
    Access(m, root, 3, address, [user |-> TRUE, writable |-> TRUE, no_execute |-> FALSE])

\* What a segment's flags ask for.
SegmentAccess(segment_flags) ==
    [present |-> TRUE, user |-> TRUE, writable |-> writable(segment_flags),
     no_execute |-> ~executable(segment_flags)]

AllCopied == \A i \in 1..Len(ledger.copies) : ledger.copies[i]

\* C12: after a load in which every copy succeeded, every address of every
\* LOAD segment is mapped present and user-accessible, writable exactly when
\* the segment has the W bit and no-execute exactly when it lacks the X bit,
\* also when another segment was loaded into the same page or under the same
\* page-table entries.
C12_ProtectionsMatchSegment ==
    (LoadSucceeded /\ AllCopied) =>
        \A s \in LoadSegments : \A address \in SegmentMemory(s) :
            PageAccess(mem, boot.root, address) = SegmentAccess(s.flags)

\* ------------------------------------------------------------- claims on validation

\* The header checks, the sum taken in the integers.
HeaderChecksHold(module) ==
    /\ is_valid_before_sum(module.header, module.len)
    /\ module.header.program_header_offset
           + module.header.program_header_num * ProgramHeaderSize <= module.len

\* C13: when a header check fails (magic, class, endianness, version, file
\* type, machine, or the program header table not inside the module, for every
\* value of the program header offset), load_memory_manager copies no segment
\* and yields no launch info.
C13_InvalidHeaderNeverLoads ==
    ~HeaderChecksHold(boot.module) =>
        /\ pc \notin {"segments", "some", "launched"}
        /\ Len(ledger.copies) = 0

\* The segment's file bytes do not lie inside the module, or are more than its
\* memory: the sum taken in the integers.
SegmentChecksFail(module, s) ==
    \/ s.offset + s.file_size > module.len
    \/ s.file_size > s.memory_size

\* C14: a LOAD program header whose offset + file_size exceeds the module size
\* (also when the sum leaves the machine word) or whose file_size exceeds its
\* memory_size stops the load before the segment is copied, and no hand-off
\* happens.
C14_InvalidSegmentNeverLoads ==
    \A i \in 1..Len(boot.module.segments) :
        (/\ HeaderChecksHold(boot.module)
         /\ boot.module.segments[i].segment_type = ELF_LOADABLE_SEGMENT
         /\ SegmentChecksFail(boot.module, boot.module.segments[i]))
            => /\ boot.segment <= i
               /\ pc \notin {"some", "launched"}

\* ------------------------------------------------------------- claims on the identity map

\* The addresses the page tables can name.
AddressSpace == 0..(WordModulus - 1)

\* C15: after identity mapping has returned, no address at or above
\* min(physical_memory_size, returned virtual_memory_size) resolves to a
\* mapping.  Stated for the addresses from INITIAL_VIRTUAL_MEMORY_SIZE on,
\* the part of the map that identity mapping builds.
C15_NothingMappedPastLimit ==
    Mapped =>
        \A address \in AddressSpace :
            (/\ address >= INITIAL_VIRTUAL_MEMORY_SIZE
             /\ address >= Min(boot.physical_memory_size,
                               boot.memory_state.virtual_memory_size))
                => Translate(mem, p4_table, address) = Fault

\* What identity mapping writes into an entry: nothing (unused), a child table
\* or a leaf.
WrittenOrUnused(entry) ==
    \/ entry = Unused
    \/ entry.flags = kernel_page_table_flags
    \/ entry.flags = kernel_page_flags

RECURSIVE UnderConstructionClean(_, _, _, _)
\* The entries from `first` on of a table under construction, and the tables
\* its child entries lead to, hold nothing else.
UnderConstructionClean(m, page_table, first, levels) ==
    \A i \in first..(TableEntries - 1) :
        /\ WrittenOrUnused(Load(m, page_table, i))
        /\ (Load(m, page_table, i).flags = kernel_page_table_flags /\ levels > 0)
               => UnderConstructionClean(m, Load(m, page_table, i).addr, 0, levels - 1)

\* C16: when identity mapping has stopped (the physical limit was reached or
\* the allocator gave no frame), every entry of every table under construction
\* that received no child table and no leaf is unused, the entry at which the
\* stop was detected included.
C16_UnfilledEntriesUnused ==
    Mapped =>
        /\ UnderConstructionClean(mem, p4_table, initial_page_table_counts(allocator)[1], 3)
        /\ Len(initial_page_table_counts(allocator)) = 2
               => UnderConstructionClean(mem, p3_table,
                                         initial_page_table_counts(allocator)[2], 2)

\* ------------------------------------------------- claims on the order of steps

\* C17: the steps of the bootstrap occur in the order memory ingested, kernel
\* identity-mapped, memory manager's address space built: boot_os starts to
\* build the address space only when identity_map_with_offset has returned to
\* it, starts the identity map only when the loop that registers the memory
\* regions has ended, and after a step that failed only halts.
C17_StepsInOrder ==
    [][/\ call'.op = "initialize_memory_manager_page_tables" => Mapped
       /\ (pc # "identity_map" /\ pc' = "identity_map") => boot.pending = << >>
       /\ pc = "err" => pc' = "halted"]_vars

\* ------------------------------------------------------ claims on the memory map

\* C18: when the boot information has no memory-map tag (type 6), boot_os
\* fails before it takes a frame for the memory manager's address space: it
\* goes from its entry to the error and the halt only, the allocator and the
\* memory stay as they were at entry, no root table exists and nothing is
\* copied.
C18_NoMemoryMapNothingTaken ==
    MEMORY_MAP_TAG_TYPE \notin boot.tags
        => /\ pc \in {"boot_os", "err", "halted"}
           /\ allocator = AllocatorAtEntry(boot.gigabyte_pages).alloc
           /\ mem = AllocatorAtEntry(boot.gigabyte_pages).mem
           /\ boot.root = NoFrame
           /\ ledger.popped = {}
           /\ bytes = << >>

C18_Witness ==
    /\ MEMORY_MAP_TAG_TYPE \notin boot.tags
    /\ pc = "halted"
    /\ call.op = "halt"
    /\ call.result = "err"

\* ------------------------------------------------------------------- SpecTrap
\*
\* main and run_operating_system of micros_kernel_amd64 on the one CPU, with the
\* handlers of the three local-APIC vectors and the two spin mutexes they and
\* the core take: WRITER of the console writer and LOCAL_APIC.  pc is where the
\* core is; boot.handler is the handler the CPU runs in place of the core
\* (NoHandler when it runs the core) and boot.at is where that handler is.  The
\* CPU enters a handler through an interrupt gate, which clears the interrupt
\* flag until the handler returns.

\* How many interrupts arrive.
MaxInterrupts == 2

\* InterruptIndex
InterruptIndex == {"Error", "Spurious", "Timer"}

NoHandler == "none"
\* A spin::Mutex nobody holds.
Unlocked == "unlocked"

\* What run_operating_system returns: Ok, an Err of boot_os, or the Err of
\* apic::init.
OsResults == {"Ok", "Generic", "Apic"}

TrapInit ==
    /\ allocator = EmptyAllocator(NoFrame)
    /\ mem = << >>
    /\ bytes = << >>
    /\ \E result \in OsResults :
          boot = [stage |-> "trap", result |-> result, interrupts |-> FALSE,
                  WRITER |-> Unlocked, LOCAL_APIC |-> Unlocked,
                  handler |-> NoHandler, at |-> "none",
                  gdt |-> FALSE, idt |-> [handlers |-> {}, loaded |-> FALSE],
                  apic |-> FALSE]
    /\ pc = "run_operating_system"
    /\ call = NoCall
    /\ ledger = EmptyLedger

\* The handlers of the CPU's exceptions that run_operating_system installs.
ExceptionHandlers == {"breakpoint", "double_fault", "page_fault"}

\* A bug: the timer vector gets no handler.
set_interrupt_handlers_without_timer(handlers) == handlers \cup {"Error", "Spurious"}

\* set_interrupt_handlers: the handlers of the three vectors of the local APIC.
set_interrupt_handlers(handlers) == handlers \cup InterruptIndex

\* run_operating_system: load_gdt, CS::set_reg, load_tss.
TrapLoadGdt ==
    /\ pc = "run_operating_system"
    /\ boot' = [boot EXCEPT !.gdt = TRUE]
    /\ pc' = "set_handler_fn"
    /\ call' = [op |-> "load_gdt"]
    /\ UNCHANGED <<allocator, mem, bytes, ledger>>

\* run_operating_system: the handlers of breakpoint, double fault and page
\* fault, then set_interrupt_handlers.
TrapSetHandlers ==
    /\ pc = "set_handler_fn"
    /\ boot' = [boot EXCEPT !.idt.handlers =
                                set_interrupt_handlers(@ \cup ExceptionHandlers)]
    /\ pc' = "IDT.load"
    /\ call' = [op |-> "set_interrupt_handlers"]
    /\ UNCHANGED <<allocator, mem, bytes, ledger>>

\* run_operating_system: IDT.load()
TrapLoadIdt ==
    /\ pc = "IDT.load"
    /\ boot' = [boot EXCEPT !.idt.loaded = TRUE]
    /\ pc' = "apic::init"
    /\ call' = [op |-> "IDT.load"]
    /\ UNCHANGED <<allocator, mem, bytes, ledger>>

\* apic::init(): build()? fails and main gets the Err, or the local APIC is
\* enabled and set_local_apic takes LOCAL_APIC.lock().
TrapApicInit ==
    /\ pc = "apic::init"
    /\ IF boot.result = "Apic"
       THEN /\ pc' = "main"
            /\ boot' = boot
       ELSE /\ pc' = "set_local_apic"
            /\ boot' = [boot EXCEPT !.LOCAL_APIC = "core", !.apic = TRUE]
    /\ call' = [op |-> "apic::init"]
    /\ UNCHANGED <<allocator, mem, bytes, ledger>>

\* set_local_apic: *LOCAL_APIC.lock() = Some(apic), and the guard is dropped.
TrapSetLocalApic ==
    /\ pc = "set_local_apic"
    /\ boot' = [boot EXCEPT !.LOCAL_APIC = Unlocked]
    /\ pc' = "interrupts::enable"
    /\ call' = [op |-> "set_local_apic"]
    /\ UNCHANGED <<allocator, mem, bytes, ledger>>

\* run_operating_system: interrupts::enable()
TrapInterruptsEnable ==
    /\ pc = "interrupts::enable"
    /\ boot.handler = NoHandler
    /\ boot' = [boot EXCEPT !.interrupts = TRUE]
    /\ pc' = "boot_os"
    /\ call' = [op |-> "interrupts::enable"]
    /\ UNCHANGED <<allocator, mem, bytes, ledger>>

\* run_operating_system: boot_os returns to main.
TrapBootOs ==
    /\ pc = "boot_os"
    /\ boot.handler = NoHandler
    /\ pc' = "main"
    /\ call' = [op |-> "boot_os", result |-> boot.result]
    /\ UNCHANGED <<allocator, mem, bytes, boot, ledger>>

\* main: WRITER.lock() for the message of the Ok or the Err.
TrapMainLock ==
    /\ pc = "main"
    /\ boot.handler = NoHandler
    /\ boot.WRITER = Unlocked
    /\ boot' = [boot EXCEPT !.WRITER = "core"]
    /\ pc' = "write_str"
    /\ call' = [op |-> "WRITER.lock", by |-> "core"]
    /\ UNCHANGED <<allocator, mem, bytes, ledger>>

\* main: write_str returns, the guard is dropped, halt().
TrapMainWriteStr ==
    /\ pc = "write_str"
    /\ boot.handler = NoHandler
    /\ boot' = [boot EXCEPT !.WRITER = Unlocked]
    /\ pc' = "halt"
    /\ call' = [op |-> "write_str", by |-> "core"]
    /\ UNCHANGED <<allocator, mem, bytes, ledger>>

\* The local APIC raises one of its vectors while the interrupt flag is set:
\* the CPU leaves the core where it is and enters the handler.
TrapInterrupt ==
    /\ boot.interrupts
    /\ boot.handler = NoHandler
    /\ ledger.ops < MaxInterrupts
    /\ \E vector \in InterruptIndex :
          /\ boot' = [boot EXCEPT !.handler = vector, !.at = "WRITER.lock",
                                  !.interrupts = FALSE]
          /\ call' = [op |-> "interrupt", vector |-> vector]
    /\ ledger' = [ledger EXCEPT !.ops = @ + 1]
    /\ UNCHANGED <<allocator, mem, bytes, pc>>

\* spurious_interrupt_handler, error_interrupt_handler, timer_interrupt_handler:
\* WRITER.lock(), which takes the mutex or spins while it is held.
TrapHandlerLock ==
    /\ boot.handler # NoHandler
    /\ boot.at = "WRITER.lock"
    /\ IF boot.WRITER = Unlocked
       THEN /\ boot' = [boot EXCEPT !.WRITER = "handler", !.at = "write_str"]
            /\ call' = [op |-> "WRITER.lock", by |-> boot.handler]
       ELSE /\ boot' = boot
            /\ call' = [op |-> "spin", by |-> boot.handler]
    /\ UNCHANGED <<allocator, mem, bytes, pc, ledger>>

\* The handler's write_str returns and the guard is dropped.
TrapHandlerWriteStr ==
    /\ boot.handler # NoHandler
    /\ boot.at = "write_str"
    /\ boot' = [boot EXCEPT !.WRITER = Unlocked, !.at = "end_interrupt"]
    /\ call' = [op |-> "write_str", by |-> boot.handler]
    /\ UNCHANGED <<allocator, mem, bytes, pc, ledger>>

\* end_interrupt: LOCAL_APIC.lock(), end_of_interrupt, the guard is dropped;
\* the handler returns and the interrupt flag is restored.  The mutex is taken
\* or the handler spins.
TrapEndInterrupt ==
    /\ boot.handler # NoHandler
    /\ boot.at = "end_interrupt"
    /\ IF boot.LOCAL_APIC = Unlocked
       THEN /\ boot' = [boot EXCEPT !.handler = NoHandler, !.at = "none",
                                    !.interrupts = TRUE]
            /\ call' = [op |-> "end_interrupt", by |-> boot.handler]
       ELSE /\ boot' = boot
            /\ call' = [op |-> "spin", by |-> boot.handler]
    /\ UNCHANGED <<allocator, mem, bytes, pc, ledger>>

TrapNext ==
    \/ TrapLoadGdt
    \/ TrapSetHandlers
    \/ TrapLoadIdt
    \/ TrapApicInit
    \/ TrapSetLocalApic
    \/ TrapInterruptsEnable
    \/ TrapBootOs
    \/ TrapMainLock
    \/ TrapMainWriteStr
    \/ TrapInterrupt
    \/ TrapHandlerLock
    \/ TrapHandlerWriteStr
    \/ TrapEndInterrupt

SpecTrap == TrapInit /\ [][TrapNext]_vars

\* ------------------------------------------------------ claims on the trap plane

\* C19: no interrupt handler blocks forever on a lock: while interrupts are
\* enabled the core holds neither mutex, no handler stands at the lock of a
\* mutex the core holds, and a handler takes no lock but the local-APIC mutex.
C19_NoHandlerBlocksOnLock ==
    /\ boot.interrupts => (boot.WRITER # "core" /\ boot.LOCAL_APIC # "core")
    /\ boot.handler # NoHandler
           => /\ ~(boot.at = "WRITER.lock" /\ boot.WRITER = "core")
              /\ ~(boot.at = "end_interrupt" /\ boot.LOCAL_APIC = "core")
    /\ boot.WRITER # "handler"

\* ------------------------------------------------------ claims on the root table

\* The root table `root_table` in the memory m, the bytes `taken` being those
\* of the frames the builder took: entry 0 is the kernel root table's entry 0,
\* the top entry points to a frame the builder took, whose top entry points to
\* another frame the builder took, and every entry between is unused.
RootTableShape(m, root_table, taken) ==
    LET top == Load(m, root_table, LastEntry)
        next == Load(m, top.addr, LastEntry)
    IN /\ Load(m, root_table, 0) = Load(m, p4_table, 0)
       /\ PRESENT \in top.flags
       /\ top.addr \in taken \ {root_table}
       /\ PRESENT \in next.flags
       /\ next.addr \in taken \ {root_table, top.addr}
       /\ \A i \in 1..(LastEntry - 1) : Load(m, root_table, i) = Unused

\* C20: on success initialize_memory_manager_page_tables returns a root table
\* whose entry 0 equals the kernel root table's entry 0, whose top entry points
\* to a newly allocated level-3 table whose top entry points to a newly
\* allocated level-2 table, and all of whose other entries are unused.
C20_RootTableAsBuilt ==
    (call.op = "initialize_memory_manager_page_tables" /\ call.ret # NoFrame)
        => RootTableShape(mem, call.ret, ledger.popped)

\* ------------------------------------------------------- claims on the user stack

\* The entry a walk from `root` through the top entries of the root and of the
\* level-3 table finds at `index` of the level-2 table.
Level2Entry(m, root, index) ==
    Load(m, Load(m, Load(m, root, LastEntry).addr, LastEntry).addr, index)

StackLeafFlags == {PRESENT, WRITABLE, USER_ACCESSIBLE, NO_EXECUTE}

\* One 2 MiB leaf at the top entry of the level-2 table.
HugeStack(m, root) ==
    /\ HUGE_PAGE \in Level2Entry(m, root, LastEntry).flags
    /\ StackLeafFlags \subseteq Level2Entry(m, root, LastEntry).flags

\* A level-1 table at the top entry of the level-2 table, with four 4 KiB
\* leaves at 0x1ff, 0x1fd, 0x1fc and 0x1fb.
FallbackStack(m, root) ==
    /\ HUGE_PAGE \notin Level2Entry(m, root, LastEntry).flags
    /\ PRESENT \in Level2Entry(m, root, LastEntry).flags
    /\ \A k \in 1..Len(StackPageEntries) :
          StackLeafFlags \subseteq
              Load(m, Level2Entry(m, root, LastEntry).addr, StackPageEntries[k]).flags

\* C21: on success of initialize_memory_manager_page_tables the user stack is
\* one 2 MiB leaf at the top entry of the level-2 table, or, only when
\* get_2mb_frame has no frame to give, four 4 KiB leaves at 0x1ff, 0x1fd, 0x1fc
\* and 0x1fb of a level-1 table linked there; every stack leaf is present,
\* writable, user-accessible and no-execute.
C21_StackLayout ==
    (call.op = "initialize_memory_manager_page_tables" /\ call.ret # NoFrame)
        => \/ HugeStack(mem, call.ret)
           \/ /\ FallbackStack(mem, call.ret)
              /\ get_2mb_frame(allocator, mem).ret = NoFrame

\* ------------------------------------------------- claims on the non-leaf entries

NonLeafFlags == {PRESENT, WRITABLE, USER_ACCESSIBLE}

\* C22: every non-leaf entry the builder writes carries exactly the flags
\* present, writable and user: the root's entry to the level-3 table, that
\* table's entry to the level-2 table, the level-2 entry to the level-1 table
\* of the fallback stack, and the level-2 entry 0x100 to the level-1 table of
\* the interrupt stack.
C22_NonLeafEntriesUserWritable ==
    (call.op = "initialize_memory_manager_page_tables" /\ call.ret # NoFrame)
        => /\ Load(mem, call.ret, LastEntry).flags = NonLeafFlags
           /\ Load(mem, Load(mem, call.ret, LastEntry).addr, LastEntry).flags = NonLeafFlags
           /\ HUGE_PAGE \notin Level2Entry(mem, call.ret, LastEntry).flags
                  => Level2Entry(mem, call.ret, LastEntry).flags = NonLeafFlags
           /\ Level2Entry(mem, call.ret, InterruptStackEntry).flags = NonLeafFlags

\* --------------------------------------------------- claims on the interrupt stack

\* INTERRUPT_STACK_BOTTOM, 0xffff_ffff_fff0_1000: the top entries of the root
\* and of the level-3 table, entry 0x1ff of the level-2 table, entry 0x101 of
\* the level-1 table, offset 0.
INTERRUPT_STACK_BOTTOM ==
    VirtualAddress(LastEntry, LastEntry, LastEntry, InterruptStackEntry + 1, 0)

\* load_gdt: what it stores in the task state segment's privilege stack table.
load_gdt == [privilege_stack_table |-> <<INTERRUPT_STACK_BOTTOM>>]

\* The page of the interrupt-stack leaf: entry 0x100 of the level-2 table, top
\* entry of its level-1 table.
InterruptStackPage ==
    {VirtualAddress(LastEntry, LastEntry, InterruptStackEntry, LastEntry, offset) :
        offset \in 0..(FOUR_KILOBYTES - 1)}

InterruptStackAccess ==
    [present |-> TRUE, user |-> FALSE, writable |-> TRUE, no_execute |-> TRUE]

\* C23: the interrupt stack address published to the CPU (privilege stack 0 of
\* the task state segment) lies in the page the interrupt-stack leaf maps, and
\* in the memory manager's address space its page is present, writable,
\* no-execute and not user-accessible.
C23_InterruptStackMapped ==
    (call.op = "initialize_memory_manager_page_tables" /\ call.ret # NoFrame)
        => /\ load_gdt.privilege_stack_table[1] \in InterruptStackPage
           /\ PageAccess(mem, call.ret, load_gdt.privilege_stack_table[1])
                  = InterruptStackAccess

\* ------------------------------------------------------ claims on the frame count

\* C24, as stated: add_aligned_frames_with_scrap_allocator on tier F gives the
\* tier exactly floor(b / F) - ceil(a / F) frames for every region [a, b).
C24_TierFrameCount ==
    call.op = "add_aligned_frames_with_scrap_allocator"
        => Len(FreeOf(call.tier))
               = (call.end \div FrameSize(call.tier))
                     - (CeilTo(call.start, FrameSize(call.tier)) \div FrameSize(call.tier))

\* C24, amended: the tier gets floor(b / F) - ceil(a / F) frames when that
\* number is positive and none otherwise; a region [a, b) that lies inside one
\* F-sized frame and holds no F-aligned address, for which the difference is
\* -1, gives the tier no frame.
C24_TierFrameCountOrNone ==
    call.op = "add_aligned_frames_with_scrap_allocator"
        => Len(FreeOf(call.tier))
               = Max(0, (call.end \div FrameSize(call.tier))
                            - (CeilTo(call.start, FrameSize(call.tier))
                                   \div FrameSize(call.tier)))

\* A region with ragged ends that holds two frames of the tier.
C24_Witness ==
    /\ call.op = "add_aligned_frames_with_scrap_allocator"
    /\ call.start % FrameSize(call.tier) # 0
    /\ call.end % FrameSize(call.tier) # 0
    /\ Len(FreeOf(call.tier)) = 2
    /\ FloorTo(call.end, FrameSize(call.tier)) - CeilTo(call.start, FrameSize(call.tier))
           = 2 * FrameSize(call.tier)

\* ------------------------------------------------------------------ SpecSlice
\*
\* One call of slice_with_bounds_check on a slice of up to MaxSliceLen bytes
\* with an index and a length from the whole range of the machine word, in a
\* build with overflow checks and in one without.

MaxSliceLen == 3

\* Small words, and the last words of the range.
SliceWords == (0..(MaxSliceLen + 1)) \cup ((WordModulus - MaxSliceLen - 1)..(WordModulus - 1))

SliceInit ==
    /\ allocator = EmptyAllocator(NoFrame)
    /\ mem = << >>
    /\ bytes = << >>
    /\ \E n \in 0..MaxSliceLen, index \in SliceWords, len \in SliceWords,
          overflow_checks \in BOOLEAN :
          boot = [stage |-> "slice", src |-> [i \in 1..n |-> FileByte(i - 1)],
                  index |-> index, len |-> len, overflow_checks |-> overflow_checks]
    /\ pc = "start"
    /\ call = NoCall
    /\ ledger = EmptyLedger

SliceCall ==
    /\ pc = "start"
    /\ boot.stage = "slice"
    /\ IF slice_with_bounds_check_panics(boot.src, boot.index, boot.len,
                                         boot.overflow_checks)
       THEN /\ pc' = "panic"
            /\ call' = [op |-> "panic"]
       ELSE /\ pc' = "done"
            /\ call' = [op |-> "slice_with_bounds_check",
                        ret |-> slice_with_bounds_check(boot.src, boot.index, boot.len)]
    /\ UNCHANGED <<allocator, mem, bytes, boot, ledger>>

\* The panic handler: halt().
SliceHalt ==
    /\ pc = "panic"
    /\ boot.stage = "slice"
    /\ pc' = "halted"
    /\ UNCHANGED <<allocator, mem, bytes, boot, call, ledger>>

SliceNext == SliceCall \/ SliceHalt

SpecSlice == SliceInit /\ [][SliceNext]_vars

\* ------------------------------------------------------------ claims on the slice

\* C25: for all slices src and all words i and n, slice_with_bounds_check(src,
\* i, n) does not panic and returns a slice of length
\* min(n, max(0, src.len() - min(i, src.len()))), also when i + n leaves the
\* range of the machine word.
C25_SliceLengthNoPanic ==
    (boot.stage = "slice" /\ pc # "start")
        => /\ pc = "done"
           /\ Len(call.ret)
                  = Min(boot.len,
                        Max(0, Len(boot.src) - Min(boot.index, Len(boot.src))))

\* ------------------------------------------------------------- SpecRegionPush
\*
\* One push of a region onto an empty allocator, by the functions of
\* frame_allocation and by those of the older kernel crate (src/kernel), for
\* every pair of a start and an end: regions that hold a frame, regions
\* without a frame-aligned address, empty regions and inverted ones (the
\* intersection of disjoint ranges has its start past its end).

\* kernel::FrameAllocator::add_aligned_frames_with_scrap_allocator:
\* smaller_allocator.add_aligned_frames(start..first_page),
\* self.add_frames(first_page..end_of_last_page),
\* smaller_allocator.add_aligned_frames(end_of_last_page..end_of_last_page).
kernel_add_aligned_frames_with_scrap_allocator(fa, smaller, m, start, end, F, Fs) ==
    LET first_page == first_full_page_address(start, F)
        end_of_last_page == end_of_last_full_page(end, F)
        head == add_aligned_frames(smaller, m, start, first_page, Fs)
        middle == add_frames(fa, head.mem, first_page, end_of_last_page, F)
    IN Scrapped(middle.fa,
                add_aligned_frames(head.fa, middle.mem, end_of_last_page,
                                   end_of_last_page, Fs))

\* two_megabyte_pages.add_aligned_frames_with_scrap_allocator(four_kilobyte_pages, ..)
\* of the kernel crate.
KernelSmallTiers(a, m, start, end) ==
    SmallTiers(a, kernel_add_aligned_frames_with_scrap_allocator(
                      a.two_megabyte_pages, a.four_kilobyte_pages, m, start, end,
                      TWO_MEGABYTES, FOUR_KILOBYTES))

\* kernel::arch::amd64: Amd64::register_memory_region.
kernel_register_memory_region(a, m, start, end) ==
    IF a.gigabyte_pages # Absent
    THEN LET first_gb_page == first_full_page_address(start, GIGABYTE)
             end_of_last_gb_page == end_of_last_full_page(end, GIGABYTE)
             head == KernelSmallTiers(a, m, start, first_gb_page)
             middle == add_frames(a.gigabyte_pages, head.mem, first_gb_page,
                                  end_of_last_gb_page, GIGABYTE)
         IN KernelSmallTiers([head.alloc EXCEPT !.gigabyte_pages = middle.fa],
                             middle.mem, end_of_last_gb_page, end_of_last_gb_page)
    ELSE KernelSmallTiers(a, m, start, end)

\* The starts and ends of the pushed regions: around the first 2 MiB boundary
\* and the first 1 GiB boundary.
RegionPushEnds ==
    {x \in RegionEnds : x <= TWO_MEGABYTES + FOUR_KILOBYTES + 1
                            \/ (x >= GIGABYTE - FOUR_KILOBYTES
                                    /\ x <= GIGABYTE + FOUR_KILOBYTES + 1)}

RegionPushInit ==
    /\ \E gb \in {Absent, NoFrame} : allocator = EmptyAllocator(gb)
    /\ mem = << >>
    /\ bytes = << >>
    /\ boot = [stage |-> "region_push"]
    /\ pc = "start"
    /\ call = NoCall
    /\ ledger = EmptyLedger

RegionPushScrap ==
    /\ pc = "start"
    /\ boot.stage = "region_push"
    /\ \E pair \in ScrapPairs, start \in RegionPushEnds, end \in RegionPushEnds :
          CallAddAlignedFramesWithScrap(pair[1], pair[2], start, end)
    /\ pc' = "done"

RegionPushRegister ==
    /\ pc = "start"
    /\ boot.stage = "region_push"
    /\ \E start \in RegionPushEnds, end \in RegionPushEnds :
          CallRegisterMemoryRegion(start, end)
    /\ pc' = "done"

KernelPushScrap ==
    /\ pc = "start"
    /\ boot.stage = "region_push"
    /\ \E pair \in ScrapPairs, start \in RegionPushEnds, end \in RegionPushEnds :
          /\ allocator[pair[1]] # Absent
          /\ LET r == kernel_add_aligned_frames_with_scrap_allocator(
                          allocator[pair[1]], allocator[pair[2]], mem, start, end,
                          FrameSize(pair[1]), FrameSize(pair[2]))
             IN /\ allocator' = [allocator EXCEPT ![pair[1]] = r.fa,
                                                  ![pair[2]] = r.smaller]
                /\ mem' = r.mem
          /\ call' = [op |-> "kernel::add_aligned_frames_with_scrap_allocator",
                      tier |-> pair[1], smaller |-> pair[2], start |-> start,
                      end |-> end]
          /\ ledger' = Handed(start, end, {})
    /\ pc' = "done"
    /\ UNCHANGED <<bytes, boot>>

KernelPushRegister ==
    /\ pc = "start"
    /\ boot.stage = "region_push"
    /\ \E start \in RegionPushEnds, end \in RegionPushEnds :
          /\ LET r == kernel_register_memory_region(allocator, mem, start, end)
             IN /\ allocator' = r.alloc
                /\ mem' = r.mem
          /\ call' = [op |-> "kernel::register_memory_region", start |-> start,
                      end |-> end]
          /\ ledger' = Handed(start, end, {})
    /\ pc' = "done"
    /\ UNCHANGED <<bytes, boot>>

RegionPushNext ==
    \/ RegionPushScrap
    \/ RegionPushRegister
    \/ KernelPushScrap
    \/ KernelPushRegister

SpecRegionPush == RegionPushInit /\ [][RegionPushNext]_vars

\* ------------------------------------------------- claims on the pushed frames

\* C26: every frame pushed by add_aligned_frames_with_scrap_allocator or
\* register_memory_region lies wholly inside the region passed in, also when
\* the region holds no frame-aligned address and when it is empty or inverted.
C26_PushedFramesInsideRegion ==
    (boot.stage = "region_push" /\ pc = "done")
        => FreeBytes \subseteq call.start..(call.end - 1)


\* ------------------------------------------------- claims on where free frames lie

\* The frames on the free lists of the three tiers.
FreeFrames == Range(Free4k) \cup Range(Free2m) \cup Range(FreeGb)

\* The address resolves to itself through the active root table.
IdentityMapped(address) == Translate(mem, p4_table, address) = address

\* C27: a frame on a free list, whose link word the push wrote into the frame
\* itself, is identity-mapped in the active address space: every free frame
\* resolves to itself through the root table, from the state right after its
\* push on; the frames lie below INITIAL_VIRTUAL_MEMORY_SIZE until the mapper
\* has returned and below the virtual_memory_size it returned afterwards.
C27_FreeFramesIdentityMapped ==
    (pc \in {"register", "module", "identity_map", "mapping", "register_remaining",
             "reclaim", "ok"})
        => \A f \in FreeFrames :
              /\ IdentityMapped(f)
              /\ f < (IF Mapped THEN boot.memory_state.virtual_memory_size
                      ELSE INITIAL_VIRTUAL_MEMORY_SIZE)

\* Memory ends past 4 GiB, the free list of 4 KiB frames ran dry during the
\* mapping and get_frame_for_page_table refilled it, and the final
\* registration and the reclaim of the boot information have pushed.
C27_Witness ==
    /\ pc = "ok"
    /\ boot.physical_memory_size > INITIAL_VIRTUAL_MEMORY_SIZE
    /\ \E area \in Range(boot.memory_map) : area.end > INITIAL_VIRTUAL_MEMORY_SIZE
    /\ FreeFrames # {}
    /\ boot.boot_info.start \in BytesOf(Range(Free4k), FOUR_KILOBYTES)


\* ------------------------------------------------- claims on the memory state

\* The memory states of the mapping: the one every call of
\* identity_map_with_offset was given, the one it has so far, and the one
\* boot_os holds.
MemoryStates ==
    {boot.memory_state}
        \cup {boot.calls[i].memory_state : i \in 1..Len(boot.calls)}
        \cup {boot.calls[i].new_memory_state : i \in 1..Len(boot.calls)}

\* The bytes of the available areas of the memory map.
AvailableBytes ==
    UNION {area.start..(area.end - 1) :
              area \in Range(available_memory_areas(boot.memory_map))}

\* C28: during the identity mapping and the final registration
\* last_frame_added_to_allocator is the first address not yet given to the
\* allocator: it never goes below the value it had before (that of the call,
\* 4 GiB at the start), never exceeds virtual_memory_size, every available
\* byte from 4 GiB up to it is on a free list once or was taken from one, and
\* no frame on a free list reaches it or lies above it.
C28_LastFrameAddedIsFrontier ==
    (pc \in {"mapping", "register_remaining", "reclaim"})
        => /\ \A s \in MemoryStates :
                 /\ s.last_frame_added_to_allocator >= INITIAL_VIRTUAL_MEMORY_SIZE
                 /\ s.last_frame_added_to_allocator <= s.virtual_memory_size
           /\ \A i \in 1..Len(boot.calls) :
                 boot.calls[i].new_memory_state.last_frame_added_to_allocator
                     >= boot.calls[i].memory_state.last_frame_added_to_allocator
           /\ \A s \in MemoryStates :
                 /\ (AvailableBytes \cap (INITIAL_VIRTUAL_MEMORY_SIZE
                                              ..(s.last_frame_added_to_allocator - 1)))
                        \subseteq (FreeBytes \cup ledger.popped)
                 /\ \A b \in FreeBytes : b < s.last_frame_added_to_allocator
           /\ NoDuplicates(Free4k \o Free2m \o FreeGb)

\* Memory ends past 4 GiB and the free list of 4 KiB frames ran dry during the
\* mapping: get_frame_for_page_table refilled it and set
\* last_frame_added_to_allocator.
C28_Witness ==
    /\ pc = "mapping"
    /\ call.op = "identity_map_entry"
    /\ call.refilled
    /\ boot.physical_memory_size > INITIAL_VIRTUAL_MEMORY_SIZE
    /\ Head(boot.calls).new_memory_state.last_frame_added_to_allocator
           = Head(boot.calls).new_memory_state.virtual_memory_size


\* ------------------------------------------------- claims on the reader's view

RECURSIVE ChildrenWritten(_, _, _, _)
\* Every entry from `first` on of the table that is present and names a child
\* table names one whose entries have all been written or marked unused, and
\* so down the levels.
ChildrenWritten(m, page_table, first, levels) ==
    \A i \in first..(TableEntries - 1) :
        (/\ PRESENT \in Load(m, page_table, i).flags
         /\ HUGE_PAGE \notin Load(m, page_table, i).flags
         /\ levels > 0)
            => /\ \A j \in 0..(TableEntries - 1) :
                     WrittenOrUnused(Load(m, Load(m, page_table, i).addr, j))
               /\ ChildrenWritten(m, Load(m, page_table, i).addr, 0, levels - 1)

\* The part of the active map that identity mapping builds, as a reader sees
\* it in memory `m`.
ReaderConsistent(m) ==
    /\ ChildrenWritten(m, p4_table, initial_page_table_counts(allocator)[1], 3)
    /\ Len(initial_page_table_counts(allocator)) = 2
           => ChildrenWritten(m, p3_table, initial_page_table_counts(allocator)[2], 2)

\* C29: at every step of identity mapping a reader walking the active root
\* table sees consistent mappings: after the step no entry is present while
\* the child table it points to holds an entry that was neither written nor
\* marked unused, and every address that resolved before the step resolves to
\* the same place after it.
C29_ReaderSeesConsistentMap ==
    [][pc = "mapping"
          => /\ ReaderConsistent(mem')
             /\ \A address \in AddressSpace :
                   Translate(mem, p4_table, address) # Fault
                       => Translate(mem', p4_table, address)
                              = Translate(mem, p4_table, address)]_vars


\* ------------------------------------------------- claims on the ingestion

\* The 4 KiB frames that lie wholly inside a gap between the regions in use,
\* below INITIAL_VIRTUAL_MEMORY_SIZE, and inside the area.
FreeGapFrames(area) ==
    UNION {AlignedFramesIn(intersect(area, gap).start, intersect(area, gap).end,
                           FOUR_KILOBYTES) :
              gap \in Range(unused_memory_regions(boot.in_use,
                                                  INITIAL_VIRTUAL_MEMORY_SIZE))}

\* C30: every available entry of the memory map takes part in the ingestion,
\* however many there are: when the ingestion loop has ended,
\* physical_memory_size is the largest end address over all available entries
\* and the free gaps of each available entry below INITIAL_VIRTUAL_MEMORY_SIZE
\* are on the free lists.
C30_EveryAvailableAreaIngested ==
    (pc = "register" /\ boot.pending = << >>)
        => /\ boot.physical_memory_size
                  = MaxOf({area.end :
                              area \in Range(available_memory_areas(boot.memory_map))})
           /\ \A area \in Range(available_memory_areas(boot.memory_map)) :
                 BytesOf(FreeGapFrames(area), FOUR_KILOBYTES) \subseteq FreeBytes


\* ------------------------------------------------- claims on the region types

\* The statically reserved tables seeded into the 4 KiB list at start.
SeededBytes ==
    IF boot.gigabyte_pages
    THEN BytesOf({p2_tables(0), p2_tables(1)}, FOUR_KILOBYTES)
    ELSE {}

\* The pages of the boot information, released at the end of boot_os.
ReleasedBytes ==
    IF pc \in {"ok", "halted"}
    THEN include_remnants_of_partially_used_pages(boot.boot_info).start
             ..(boot.boot_info.end - 1)
    ELSE {}

\* The bytes of the entries of the memory map of type available (1) or
\* ACPI-reclaimable (3).
BytesOfAvailableTypes ==
    UNION {area.start..(area.end - 1) :
              area \in {e \in Range(boot.memory_map) :
                           e.typ \in {"Available", "AcpiAvailable"}}}

\* C31: apart from the tables seeded at start and the range of the boot
\* information released at the end, every byte of every frame that reached
\* the allocator (on a free list, or taken from one) lies inside an entry of
\* the memory map of type available or ACPI-reclaimable: the first pass, the
\* refills of the identity map and the final registration push no memory of
\* another type and none that no entry describes.
C31_OnlyAvailableMemoryPushed ==
    (pc \in {"register", "module", "identity_map", "mapping", "register_remaining",
             "reclaim", "ok", "err", "halted"})
        => (FreeBytes \cup ledger.popped)
               \subseteq (BytesOfAvailableTypes \cup SeededBytes \cup ReleasedBytes)

\* The memory map has an entry that is not available and memory past 4 GiB,
\* the 4 KiB list was refilled during the mapping, and boot_os has returned
\* Ok with frames on the free lists.
C31_Witness ==
    /\ pc = "ok"
    /\ \E area \in Range(boot.memory_map) : area.typ = "Reserved"
    /\ boot.physical_memory_size > INITIAL_VIRTUAL_MEMORY_SIZE
    /\ Len(Free4k) > 2


\* ------------------------------------------------- claims on the new tables

\* Every entry of the table outside `written` is unused.
UnusedExcept(m, page_table, written) ==
    \A i \in (0..(TableEntries - 1)) \ written : Load(m, page_table, i) = Unused

\* The level-1 table of the fallback stack holds nothing but its four leaves.
FallbackTableClean(m, root) ==
    (/\ PRESENT \in Level2Entry(m, root, LastEntry).flags
     /\ HUGE_PAGE \notin Level2Entry(m, root, LastEntry).flags)
        => UnusedExcept(m, Level2Entry(m, root, LastEntry).addr, Range(StackPageEntries))

\* The level-1 table of the interrupt stack holds nothing but its leaf.
InterruptTableClean(m, root) ==
    PRESENT \in Level2Entry(m, root, InterruptStackEntry).flags
        => UnusedExcept(m, Level2Entry(m, root, InterruptStackEntry).addr, {LastEntry})

\* C32: after the address-space builder has succeeded, every entry of every
\* table it took from the allocator (root, level 3, level 2, the level-1
\* table of the fallback stack, the level-1 table of the interrupt stack) is
\* one the builder wrote or is unused: none holds what the frame held on the
\* free list.
C32_NewTablesHoldNothingStale ==
    (call.op = "initialize_memory_manager_page_tables" /\ call.ret # NoFrame)
        => /\ UnusedExcept(mem, call.ret, {0, LastEntry})
           /\ UnusedExcept(mem, Load(mem, call.ret, LastEntry).addr, {LastEntry})
           /\ UnusedExcept(mem, Load(mem, Load(mem, call.ret, LastEntry).addr, LastEntry).addr,
                           {LastEntry, InterruptStackEntry})
           /\ FallbackTableClean(mem, call.ret)
           /\ InterruptTableClean(mem, call.ret)


\* ------------------------------------------------- claims on the release of the boot information

\* The bytes of the kernel image and of the memory manager's module: the
\* regions in use other than the boot information.
KernelAndModuleBytes ==
    UNION {RangeBytes(r) : r \in {u \in Range(boot.in_use) : u # boot.boot_info}}

\* The 4 KiB frames the release of the boot information pushes: the aligned
\* frames inside the range it registers.
ReleasedFrames == AlignedFramesIn(call.start, call.end, FOUR_KILOBYTES)

\* C33: the release of the range of the boot information at the end of
\* boot_os pushes only 4 KiB frames that hold no byte of the kernel image or
\* of the memory manager's module and that were on no free list: each is on
\* the 4 KiB list once and overlaps no frame of a larger tier.
C33_ReleaseTakesNoSharedPage ==
    (pc = "ok" /\ call.op = "include_remnants_of_partially_used_pages")
        => /\ BytesOf(ReleasedFrames, FOUR_KILOBYTES) \cap KernelAndModuleBytes = {}
           /\ ReleasedFrames \subseteq Range(Free4k)
           /\ NoDuplicates(Free4k)
           /\ BytesOf(ReleasedFrames, FOUR_KILOBYTES)
                  \cap (BytesOf(Range(Free2m), TWO_MEGABYTES)
                            \cup BytesOf(Range(FreeGb), GIGABYTE)) = {}


\* ------------------------------------------------- claims on the descent

\* The call of identity_map_with_offset at the head of the stack is at its
\* entry, on a level whose start offset is not zero.
EntersWithOffset ==
    /\ pc = "mapping"
    /\ boot.calls # << >>
    /\ Head(boot.calls).stage = "enter"
    /\ Head(boot.calls).page_table_offsets # << >>
    /\ Head(boot.calls).page_table_offsets[1] # 0

\* The step descends into the entry offset - 1 of the call's table.
Descends ==
    /\ Len(boot'.calls) = Len(boot.calls) + 1
    /\ Head(boot'.calls).stage = "enter"
    /\ Head(boot'.calls).page_table
           = Load(mem, Head(boot.calls).page_table,
                  Head(boot.calls).page_table_offsets[1] - 1).addr
    /\ boot'.calls[2].stage = "recursed"

\* A descent returns to the call that made it.
DescentReturns ==
    /\ pc = "mapping"
    /\ Len(boot.calls) > 1
    /\ Len(boot'.calls) = Len(boot.calls) - 1

\* C34: on every level with a start offset that is not zero,
\* identity_map_with_offset first descends into the entry offset - 1, the last
\* one already populated, and only when the descent has returned populates
\* the entries from `offset` on, from the memory state the descent produced;
\* for the offsets [1] and for [1, 4].
C34_DescentBeforeLoop ==
    [][/\ EntersWithOffset => Descends
       /\ DescentReturns
              => /\ Head(boot'.calls).stage = "loop"
                 /\ Head(boot'.calls).index = Head(boot'.calls).page_table_offsets[1]
                 /\ Head(boot'.calls).memory_state = Head(boot.calls).new_memory_state]_vars


\* ------------------------------------------------- claims on the populated entries

\* The entries below `offset` of the table are as the kernel's tables had
\* them at entry.
AsAtEntry(page_table, offset) ==
    \A i \in 0..(offset - 1) :
        Load(mem, page_table, i) = Load(KernelTables(boot.gigabyte_pages), page_table, i)

\* C35: identity_map_with_offset writes and clears no entry whose index is
\* below the start offset of its level: in the tables the call visits with an
\* offset (the root, and the level-3 table under its entry 0 for the offsets
\* [1, 4]) the entries populated before the call keep their address and
\* flags, during the call and after it.
C35_PopulatedEntriesKept ==
    (pc \in {"mapping", "register_remaining", "reclaim", "ok"})
        => /\ AsAtEntry(p4_table, initial_page_table_counts(allocator)[1])
           /\ Len(initial_page_table_counts(allocator)) = 2
                  => AsAtEntry(p3_table, initial_page_table_counts(allocator)[2])

\* Memory ends past 4 GiB and the loop of a call has set an entry at its
\* offset or above to a table it took from the allocator.
C35_Witness ==
    /\ pc = "mapping"
    /\ call.op = "identity_map_entry"
    /\ ~call.finished
    /\ call.index >= 1
    /\ PRESENT \in Load(mem, call.page_table, call.index).flags
    /\ boot.physical_memory_size > INITIAL_VIRTUAL_MEMORY_SIZE


\* ------------------------------------------------------------------ SpecTags
\*
\* The search for the memory map in a boot information: tags_of_type over the
\* tag iterator, with MemoryMapTag::try_from on every tag of type 6.  The blob
\* holds up to MaxTags tags, each starting on an 8-byte boundary, with size
\* fields from 0 on; the search is run by the multiboot2 crate and by the
\* copy of it in micros_kernel_common, in a build with overflow checks and in
\* one without.

MaxTags == 2

\* size_of::<BootInfoTagHeader>(), its alignment, size_of::<MemoryMapHeader>()
\* and size_of::<MemoryMapEntry>().
BootInfoTagHeaderBytes == 8
MemoryMapHeaderBytes == 16
MemoryMapEntryBytes == 24

\* The size fields: 0, a bare tag header, a tag shorter than the memory-map
\* header, a memory map of no entry, one of a broken entry, one of one entry.
TagSizes ==
    {0, BootInfoTagHeaderBytes, MemoryMapHeaderBytes - 4, MemoryMapHeaderBytes,
     MemoryMapHeaderBytes + 1, MemoryMapHeaderBytes + MemoryMapEntryBytes}

Crates == {"multiboot2", "micros_kernel_common"}

\* The next 8-byte boundary at or after the address.
AlignUp(address) ==
    address + ((BootInfoTagHeaderBytes - (address % BootInfoTagHeaderBytes))
                   % BootInfoTagHeaderBytes)

RECURSIVE TagStart(_, _)
\* Where the k-th tag of the blob starts: a tag takes its header even when its
\* size field says less, and the next tag starts on the next boundary.
TagStart(tags, k) ==
    IF k = 1 THEN 0
    ELSE AlignUp(TagStart(tags, k - 1) + Max(tags[k - 1].size, BootInfoTagHeaderBytes))

\* The bytes of the tags of the blob (the slice BootInformation::tags).
TagsLen(tags) ==
    IF tags = << >> THEN 0
    ELSE TagStart(tags, Len(tags)) + Max(tags[Len(tags)].size, BootInfoTagHeaderBytes)

\* The tag header read at the address.
HeaderAt(tags, address) ==
    tags[CHOOSE k \in 1..Len(tags) : TagStart(tags, k) = address]

\* MultibootTagIterator::next on the slice from `pos` to `end`: None, or the
\* tag and the position of the remaining data.
next(tags, pos, end) ==
    IF end - pos < BootInfoTagHeaderBytes THEN None
    ELSE IF end - pos < HeaderAt(tags, AlignUp(pos)).size + (AlignUp(pos) - pos)
    THEN None
    ELSE [tag_type |-> HeaderAt(tags, AlignUp(pos)).tag_type,
          data |-> HeaderAt(tags, AlignUp(pos)).size,
          remaining |-> AlignUp(pos) + HeaderAt(tags, AlignUp(pos)).size]

\* usize subtraction without overflow checks.
wrapping_sub(a, b) == (a - b + WordModulus) % WordModulus

\* The size the crate compares entry_size with: that of MemoryMapEntry in
\* multiboot2, that of MemoryMapHeader in micros_kernel_common.
expected_entry_size(crate) ==
    IF crate = "multiboot2" THEN MemoryMapEntryBytes ELSE MemoryMapHeaderBytes

\* MemoryMapTag::try_from panics: value.len() - size_of::<MemoryMapHeader>()
\* is computed before the length is tested.
try_from_panics(len, overflow_checks) == overflow_checks /\ len < MemoryMapHeaderBytes

\* MemoryMapTag::try_from on a tag of `len` bytes: Err, or Ok with the number
\* of entries.
try_from(crate, len, entry_size, entry_version) ==
    IF \/ len < MemoryMapHeaderBytes
       \/ wrapping_sub(len, MemoryMapHeaderBytes) % MemoryMapEntryBytes # 0
    THEN [ok |-> FALSE]
    ELSE IF entry_size # expected_entry_size(crate) \/ entry_version # 0
    THEN [ok |-> FALSE]
    ELSE [ok |-> TRUE,
          num_entries |-> wrapping_sub(len, MemoryMapHeaderBytes) \div MemoryMapEntryBytes]

TagsInit ==
    /\ allocator = EmptyAllocator(NoFrame)
    /\ mem = << >>
    /\ bytes = << >>
    /\ \E n \in 1..MaxTags, crate \in Crates, overflow_checks \in BOOLEAN,
          entry_size \in {MemoryMapHeaderBytes, MemoryMapEntryBytes},
          entry_version \in {0, 1} :
          \E tags \in [1..n -> [tag_type : {BOOT_MODULE_TAG_TYPE, MEMORY_MAP_TAG_TYPE},
                                size : TagSizes]] :
             boot = [stage |-> "tags", crate |-> crate, tags |-> tags, pos |-> 0,
                     end |-> TagsLen(tags), entry_size |-> entry_size,
                     entry_version |-> entry_version,
                     overflow_checks |-> overflow_checks, turns |-> 0]
    /\ pc = "search"
    /\ call = NoCall
    /\ ledger = EmptyLedger

\* tags_of_type::<MemoryMapTag>().next(), one turn of its filter_map: the
\* iterator has no tag left.
TagsExhausted ==
    /\ pc = "search"
    /\ boot.stage = "tags"
    /\ next(boot.tags, boot.pos, boot.end) = None
    /\ pc' = "none"
    /\ call' = [op |-> "next", ret |-> None]
    /\ UNCHANGED <<allocator, mem, bytes, boot, ledger>>

\* One turn of the filter_map on a tag of another type: the search goes on.
TagsSkip ==
    /\ pc = "search"
    /\ boot.stage = "tags"
    /\ boot.turns < MaxTags + 1
    /\ next(boot.tags, boot.pos, boot.end) # None
    /\ next(boot.tags, boot.pos, boot.end).tag_type # MEMORY_MAP_TAG_TYPE
    /\ boot' = [boot EXCEPT !.pos = next(boot.tags, boot.pos, boot.end).remaining,
                            !.turns = @ + 1]
    /\ call' = [op |-> "next", ret |-> next(boot.tags, boot.pos, boot.end)]
    /\ UNCHANGED <<allocator, mem, bytes, pc, ledger>>

\* One turn of the filter_map on a tag of type 6: tag.data.try_into().ok();
\* the search ends with the memory map, goes on after Err, or panics.
TagsTryFrom ==
    /\ pc = "search"
    /\ boot.stage = "tags"
    /\ boot.turns < MaxTags + 1
    /\ next(boot.tags, boot.pos, boot.end) # None
    /\ next(boot.tags, boot.pos, boot.end).tag_type = MEMORY_MAP_TAG_TYPE
    /\ boot' = [boot EXCEPT !.pos = next(boot.tags, boot.pos, boot.end).remaining,
                            !.turns = @ + 1]
    /\ IF try_from_panics(next(boot.tags, boot.pos, boot.end).data, boot.overflow_checks)
       THEN /\ pc' = "panic"
            /\ call' = [op |-> "panic", len |-> next(boot.tags, boot.pos, boot.end).data]
       ELSE /\ call' = [op |-> "try_from", len |-> next(boot.tags, boot.pos, boot.end).data,
                        ret |-> try_from(boot.crate,
                                         next(boot.tags, boot.pos, boot.end).data,
                                         boot.entry_size, boot.entry_version)]
            /\ pc' = IF try_from(boot.crate, next(boot.tags, boot.pos, boot.end).data,
                                 boot.entry_size, boot.entry_version).ok
                     THEN "found"
                     ELSE "search"
    /\ UNCHANGED <<allocator, mem, bytes, ledger>>

\* The panic handler: halt().
TagsHalt ==
    /\ pc = "panic"
    /\ boot.stage = "tags"
    /\ pc' = "halted"
    /\ UNCHANGED <<allocator, mem, bytes, boot, call, ledger>>

TagsNext ==
    \/ TagsExhausted
    \/ TagsSkip
    \/ TagsTryFrom
    \/ TagsHalt

SpecTags == TagsInit /\ [][TagsNext]_vars

\* ------------------------------------------------- claims on the memory-map tag

\* C36: a tag of type 6 is accepted as the memory map exactly when its
\* entry_size is the 24 bytes of an entry, its entry_version is 0 and its body
\* is a whole number of entries; a tag shorter than the header of the memory
\* map is rejected, without a panic.
C36_MemoryMapAcceptedWhenWellFormed ==
    (boot.stage = "tags" /\ call.op \in {"try_from", "panic"})
        => /\ call.op = "try_from"
           /\ call.ret.ok
                  <=> /\ call.len >= MemoryMapHeaderBytes
                      /\ (call.len - MemoryMapHeaderBytes) % MemoryMapEntryBytes = 0
                      /\ boot.entry_size = MemoryMapEntryBytes
                      /\ boot.entry_version = 0


\* The bytes the tag iterator has left.
RemainingBytes == boot.end - boot.pos

\* C37: every call of the tag iterator's next returns none or strictly shrinks
\* the remaining range of bytes, whatever a tag's size field holds, 0 included:
\* so the search for a tag ends.
C37_NextShrinksRemainingRange ==
    [][(boot.stage = "tags" /\ call'.op \in {"next", "try_from", "panic"} /\ boot' # boot)
          => (boot.end' - boot.pos') < RemainingBytes]_vars


\* ------------------------------------------------ claims on the order of set-up

\* The trap plane is installed: the descriptor tables are loaded, the IDT holds
\* the handlers of breakpoint, double fault, page fault and of the three APIC
\* vectors, and it is loaded.
TrapPlaneInstalled ==
    /\ boot.gdt
    /\ {"breakpoint", "double_fault", "page_fault", "Error", "Spurious", "Timer"}
           \subseteq boot.idt.handlers
    /\ boot.idt.loaded

\* C38: interrupts are enabled (and a handler runs) only after the descriptor
\* tables are loaded, the six handlers are installed, the IDT is loaded and
\* apic::init has succeeded; when apic::init fails interrupts are never
\* enabled and boot_os is never run.
C38_InterruptsAfterTrapPlane ==
    boot.stage = "trap"
        => /\ (boot.interrupts \/ boot.handler # NoHandler \/ pc = "boot_os")
                  => (TrapPlaneInstalled /\ boot.apic)
           /\ boot.result = "Apic"
                  => (~boot.interrupts /\ boot.handler = NoHandler
                      /\ pc # "boot_os" /\ call.op # "boot_os"
                      /\ call.op # "interrupts::enable")

C38_Witness ==
    /\ boot.stage = "trap"
    /\ boot.interrupts
    /\ call.op = "interrupts::enable"
    /\ pc = "boot_os"


\* ------------------------------------------------------- claims on the empty pop

\* The tier holds no frame: its list is empty, or the tier is absent.
TierEmpty(t) == allocator[t] \in {NoFrame, Absent}

\* The call of the step changes no list.
ListsUnchanged == allocator' = allocator /\ mem' = mem

\* C39: get_frame on an empty tier returns none and leaves the tier empty;
\* get_2mb_frame and get_4k_frame return none only when their own tier and
\* every larger tier are empty (an absent 1 GiB tier counts as empty; and
\* whenever these are all empty they do return none), and then no list changes.
C39_NoneOnlyWhenAllTiersEmpty ==
    [][/\ (call'.op = "get_frame" /\ TierEmpty(call'.tier))
              => (call'.ret = NoFrame /\ ListsUnchanged)
       /\ call'.op = "get_2mb_frame"
              => /\ call'.ret = NoFrame
                     <=> (TierEmpty("two_megabyte_pages") /\ TierEmpty("gigabyte_pages"))
                 /\ call'.ret = NoFrame => ListsUnchanged
       /\ call'.op = "get_4k_frame"
              => /\ call'.ret = NoFrame <=> (\A t \in Tiers : TierEmpty(t))
                 /\ call'.ret = NoFrame => ListsUnchanged]_vars

\* get_4k_frame returns none on an allocator that frames were pushed on and
\* popped from.
C39_Witness ==
    /\ call.op = "get_4k_frame"
    /\ call.ret = NoFrame
    /\ ledger.popped # {}
    /\ \A t \in Tiers : TierEmpty(t)

====
